---------------------------- MODULE Spec2Model ----------------------------
(***************************************************************************)
(* A model of the WebGL renderer of the Cubism framework                   *)
(* (src/src/rendering/cubismrenderer_webgl.ts): the clipping manager       *)
(* (grouping of masks, bounds, layout of the masks in the RGBA channels of *)
(* one render texture), the choice of shader variant and blend function,   *)
(* and the two passes of doDrawModel.                                      *)
(*                                                                         *)
(* Conventions.  Drawable indices, channel numbers and positions in the    *)
(* csmVector lists are 0-based as in the source; TLA+ sequences are        *)
(* 1-based, so element i of a source list is seq[i + 1].  A null or        *)
(* undefined reference to a clipping context is NoContext; a real one is   *)
(* the 1-based position of the context in _clippingContextListForMask      *)
(* (the two lists of the manager share the context objects).  Vertex       *)
(* coordinates are integers; layout rectangles are exact rationals         *)
(* <<numerator, denominator>>.                                             *)
(***************************************************************************)
EXTENDS Integers, Sequences, FiniteSets, TLC

(***************************************************************************)
(* Program constants                                                       *)
(***************************************************************************)
\* const ColorChannelCount = 4
ColorChannelCount == 4

\* Number.MAX_VALUE: larger than every coordinate of the model.
NumberMaxValue == 1000000

\* Number.MIN_VALUE is the smallest POSITIVE double (5e-324), not the most
\* negative one.  Against the integer coordinates of the model it orders
\* exactly as 0 does (x > 5e-324 iff x > 0) and it is absorbed by the
\* subtraction max - min, so it is represented by 0.
NumberMinValue == 0

\* enum ShaderNames
ShaderNames_SetupMask == 0
ShaderNames_NormalPremultipliedAlpha == 1
ShaderNames_NormalMaskedPremultipliedAlpha == 2
ShaderNames_NomralMaskedInvertedPremultipliedAlpha == 3
ShaderNames_AddPremultipliedAlpha == 4
ShaderNames_AddMaskedPremultipliedAlpha == 5
ShaderNames_AddMaskedPremultipliedAlphaInverted == 6
ShaderNames_MultPremultipliedAlpha == 7
ShaderNames_MultMaskedPremultipliedAlpha == 8
ShaderNames_MultMaskedPremultipliedAlphaInverted == 9

\* enum CubismBlendMode (cubismrenderer.ts), as used by setupShaderProgram
CubismBlendModes == {"Normal", "Additive", "Multiplicative"}

NoContext == 0

(***************************************************************************)
(* Bounds of the model                                                     *)
(***************************************************************************)
\* longest list of mask ids of one drawable
MaxMaskLen == 3
\* largest number of clipping contexts handed to setupLayoutBounds
MaxClips == 38
\* frames drawn by one renderer
MaxFrames == 3
\* the managers one renderer creates, and the calls of one release method
MaxManagers == 3
MaxReleases == 2

(***************************************************************************)
(* Arithmetic helpers                                                      *)
(***************************************************************************)
RECURSIVE GCD(_, _)
GCD(a, b) ==
    IF b = 0 THEN a ELSE GCD(b, a % b)

Abs(a) ==
    IF a < 0 THEN -a ELSE a

\* the rational n/d (d # 0) in lowest terms with a positive denominator
Rat(n, d) ==
    LET g == GCD(Abs(n), Abs(d))
        s == IF d < 0 THEN -1 ELSE 1
    IN  << (s * n) \div g, (s * d) \div g >>

\* Infinity, -Infinity and NaN, which every sum and product hands on
NotFinite == << 0, 0 >>

IsFinite(p) ==
    p[2] # 0

RatMul(p, q) ==
    IF IsFinite(p) /\ IsFinite(q) THEN Rat(p[1] * q[1], p[2] * q[2]) ELSE NotFinite

RatAdd(p, q) ==
    IF IsFinite(p) /\ IsFinite(q) THEN Rat(p[1] * q[2] + q[1] * p[2], p[2] * q[2])
    ELSE NotFinite

RatNeg(p) ==
    << -p[1], p[2] >>

\* p / q for a finite q; a division by zero is Infinity or NaN
RatDiv(p, q) ==
    IF IsFinite(p) /\ IsFinite(q) /\ q[1] # 0 THEN Rat(p[1] * q[2], p[2] * q[1])
    ELSE NotFinite

\* ~~x for a non-negative quotient a / b
Trunc(a, b) ==
    a \div b

(***************************************************************************)
(* csmRect and CubismClippingContext                                       *)
(***************************************************************************)
\* new csmRect() as the contexts hold it before any frame
NewRect ==
    [x |-> 0, y |-> 0, width |-> 0, height |-> 0]

NewLayoutRect ==
    [x |-> Rat(0, 1), y |-> Rat(0, 1), width |-> Rat(0, 1), height |-> Rat(0, 1)]

\* csmRect.expand(w, h): the rectangle grows by w to the left and to the right
\* and by h upwards and downwards
Expand(rect, w, h) ==
    [ x      |-> RatAdd(rect.x, RatNeg(w)),
      y      |-> RatAdd(rect.y, RatNeg(h)),
      width  |-> RatAdd(rect.width, RatMul(Rat(2, 1), w)),
      height |-> RatAdd(rect.height, RatMul(Rat(2, 1), h)) ]

\* A CubismMatrix44 that was only translated and scaled is the map
\* (x, y) |-> (sx * x + tx, sy * y + ty).  new CubismMatrix44() is the identity.
NewMatrix ==
    [ sx |-> Rat(1, 1), sy |-> Rat(1, 1), tx |-> Rat(0, 1), ty |-> Rat(0, 1) ]

\* CubismMatrix44.translateRelative(x, y): the translation is applied before
\* the matrix, new = [matrix][translate]
TranslateRelative(matrix, x, y) ==
    [matrix EXCEPT !.tx = RatAdd(@, RatMul(matrix.sx, x)),
                   !.ty = RatAdd(@, RatMul(matrix.sy, y))]

\* CubismMatrix44.scaleRelative(x, y): new = [matrix][scale]
ScaleRelative(matrix, x, y) ==
    [matrix EXCEPT !.sx = RatMul(@, x), !.sy = RatMul(@, y)]

\* _layoutChannelNo before setupLayoutBounds has assigned one (undefined)
NoChannel == -1

\* new CubismClippingContext(manager, clippingDrawableIndices, clipCount):
\* _isUsing is left undefined, which every test of it reads as false.
NewClippingContext(clippingDrawableIndices, clipCount) ==
    [ clippingIdList           |-> clippingDrawableIndices,
      clippingIdCount          |-> clipCount,
      isUsing                  |-> FALSE,
      layoutChannelNo          |-> NoChannel,
      layoutBounds             |-> NewLayoutRect,
      allClippedDrawRect       |-> NewRect,
      matrixForMask            |-> NewMatrix,
      matrixForDraw            |-> NewMatrix,
      clippedDrawableIndexList |-> << >> ]

\* CubismClippingContext.addClippedDrawable
AddClippedDrawable(cc, drawableIndex) ==
    [cc EXCEPT !.clippedDrawableIndexList = Append(@, drawableIndex)]

(***************************************************************************)
(* CubismClippingManager_WebGL.findSameClip                                *)
(***************************************************************************)
\* the inner loops: how many of the context's ids occur in drawableMasks[0..count)
SameCount(cc, drawableMasks, count) ==
    Cardinality({ j \in 1..count :
                    \E k \in 1..count : drawableMasks[k] = cc.clippingIdList[j] })

\* a faulty variant: the test on the number of ids is dropped
IsSameClipNoCount(cc, drawableMasks, drawableMaskCounts) ==
    \A j \in 1..cc.clippingIdCount :
        \E k \in 1..drawableMaskCounts : drawableMasks[k] = cc.clippingIdList[j]

\* does the context at (1-based) position i pass the two tests of the loop body
IsSameClip(cc, drawableMasks, drawableMaskCounts) ==
    /\ cc.clippingIdCount = drawableMaskCounts
    /\ SameCount(cc, drawableMasks, cc.clippingIdCount) = cc.clippingIdCount

\* a faulty variant: no context is ever found
FindSameClipNone(list, drawableMasks, drawableMaskCounts) ==
    NoContext

\* the position of the first matching context, NoContext (null) when none
FindSameClip(list, drawableMasks, drawableMaskCounts) ==
    LET hits == { i \in 1..Len(list) :
                    IsSameClip(list[i], drawableMasks, drawableMaskCounts) }
    IN  IF hits = {} THEN NoContext
        ELSE CHOOSE i \in hits : \A j \in hits : i <= j

(***************************************************************************)
(* CubismClippingManager_WebGL.initialize                                  *)
(* mgr is [forMask, forDraw]: the two context lists of the manager.        *)
(***************************************************************************)
NewManagerLists ==
    [forMask |-> << >>, forDraw |-> << >>]

\* a faulty variant: the drawable is added to a new context only, not to a
\* context that was found
InitializeBodyNewOnly(mgr, i, drawableMasks, drawableMaskCounts) ==
    IF drawableMaskCounts[i + 1] <= 0
    THEN [mgr EXCEPT !.forDraw = Append(@, NoContext)]
    ELSE LET found == FindSameClip(mgr.forMask, drawableMasks[i + 1],
                                   drawableMaskCounts[i + 1])
             withNew == IF found = NoContext
                        THEN Append(mgr.forMask,
                                    AddClippedDrawable(
                                      NewClippingContext(drawableMasks[i + 1],
                                                         drawableMaskCounts[i + 1]),
                                      i))
                        ELSE mgr.forMask
             at == IF found = NoContext THEN Len(withNew) ELSE found
         IN  [ forMask |-> withNew,
               forDraw |-> Append(mgr.forDraw, at) ]

\* the body of the loop, for drawable i (0-based)
InitializeBody(mgr, i, drawableMasks, drawableMaskCounts) ==
    IF drawableMaskCounts[i + 1] <= 0
    THEN [mgr EXCEPT !.forDraw = Append(@, NoContext)]
    ELSE LET found == FindSameClip(mgr.forMask, drawableMasks[i + 1],
                                   drawableMaskCounts[i + 1])
             withNew == IF found = NoContext
                        THEN Append(mgr.forMask,
                                    NewClippingContext(drawableMasks[i + 1],
                                                       drawableMaskCounts[i + 1]))
                        ELSE mgr.forMask
             at == IF found = NoContext THEN Len(withNew) ELSE found
         IN  [ forMask |-> [withNew EXCEPT ![at] = AddClippedDrawable(@, i)],
               forDraw |-> Append(mgr.forDraw, at) ]

\* one iteration of the loop; the lists are bound to their value first, so
\* that the body reads them rather than recomputing them
InitializeDrawable(mgr, i, drawableMasks, drawableMaskCounts) ==
    CHOOSE after \in { InitializeBody(lists, i, drawableMasks, drawableMaskCounts) :
                         lists \in {mgr} } : TRUE

\* the iterations lo..hi-1 of the loop, in order: those of the first half,
\* then those of the second half on the lists the first half leaves
RECURSIVE InitializeRange(_, _, _, _, _)
InitializeRange(mgr, lo, hi, drawableMasks, drawableMaskCounts) ==
    IF lo >= hi THEN mgr
    ELSE IF hi = lo + 1
    THEN InitializeDrawable(mgr, lo, drawableMasks, drawableMaskCounts)
    ELSE LET mid == lo + ((hi - lo) \div 2)
         IN  CHOOSE after \in
                 { InitializeRange(half, mid, hi, drawableMasks, drawableMaskCounts) :
                     half \in { InitializeRange(mgr, lo, mid, drawableMasks,
                                                 drawableMaskCounts) } } : TRUE

ManagerInitialize(mgr, drawableCount, drawableMasks, drawableMaskCounts) ==
    InitializeRange(mgr, 0, drawableCount, drawableMasks, drawableMaskCounts)

(***************************************************************************)
(* CubismClippingManager_WebGL.setupLayoutBounds                           *)
(* LayoutWrites gives the assignments the call makes, in order, each       *)
(* [index (0-based curClipIndex), channelNo, bounds], and the number of    *)
(* CubismLogError calls.                                                   *)
(***************************************************************************)
LayoutRect(x, y, w, h) ==
    [x |-> x, y |-> y, width |-> w, height |-> h]

\* a faulty variant: a channel of one context is laid out as a channel of two
LayoutCellHalves(layoutCount, i) ==
    IF layoutCount <= 2 THEN
        LayoutRect(RatMul(Rat(i % 2, 1), Rat(1, 2)), Rat(0, 1), Rat(1, 2), Rat(1, 1))
    ELSE IF layoutCount <= 4 THEN
        LayoutRect(RatMul(Rat(i % 2, 1), Rat(1, 2)),
                   RatMul(Rat(Trunc(i, 2), 1), Rat(1, 2)),
                   Rat(1, 2), Rat(1, 2))
    ELSE
        LayoutRect(Rat(i % 3, 3), Rat(Trunc(i, 3), 3), Rat(1, 3), Rat(1, 3))

\* a faulty variant: the 2x2 and 3x3 grids are filled column by column
LayoutCellColumnMajor(layoutCount, i) ==
    IF layoutCount = 1 THEN
        LayoutRect(Rat(0, 1), Rat(0, 1), Rat(1, 1), Rat(1, 1))
    ELSE IF layoutCount = 2 THEN
        LayoutRect(RatMul(Rat(i % 2, 1), Rat(1, 2)), Rat(0, 1), Rat(1, 2), Rat(1, 1))
    ELSE IF layoutCount <= 4 THEN
        LayoutRect(RatMul(Rat(Trunc(i, 2), 1), Rat(1, 2)),
                   RatMul(Rat(i % 2, 1), Rat(1, 2)),
                   Rat(1, 2), Rat(1, 2))
    ELSE
        LayoutRect(Rat(Trunc(i, 3), 3), Rat(i % 3, 3), Rat(1, 3), Rat(1, 3))

\* a faulty variant: the cells of the 3x3 grid are counted in rows of two
LayoutCellRowsOfTwo(layoutCount, i) ==
    IF layoutCount = 1 THEN
        LayoutRect(Rat(0, 1), Rat(0, 1), Rat(1, 1), Rat(1, 1))
    ELSE IF layoutCount = 2 THEN
        LayoutRect(RatMul(Rat(i % 2, 1), Rat(1, 2)), Rat(0, 1), Rat(1, 2), Rat(1, 1))
    ELSE IF layoutCount <= 4 THEN
        LayoutRect(RatMul(Rat(i % 2, 1), Rat(1, 2)),
                   RatMul(Rat(Trunc(i, 2), 1), Rat(1, 2)),
                   Rat(1, 2), Rat(1, 2))
    ELSE
        LayoutRect(Rat(i % 2, 3), Rat(Trunc(i, 2), 3), Rat(1, 3), Rat(1, 3))

\* the rectangle of the i-th (0-based) context laid out in a channel of layoutCount
LayoutCell(layoutCount, i) ==
    IF layoutCount = 1 THEN
        LayoutRect(Rat(0, 1), Rat(0, 1), Rat(1, 1), Rat(1, 1))
    ELSE IF layoutCount = 2 THEN
        LayoutRect(RatMul(Rat(i % 2, 1), Rat(1, 2)), Rat(0, 1), Rat(1, 2), Rat(1, 1))
    ELSE IF layoutCount <= 4 THEN
        LayoutRect(RatMul(Rat(i % 2, 1), Rat(1, 2)),
                   RatMul(Rat(Trunc(i, 2), 1), Rat(1, 2)),
                   Rat(1, 2), Rat(1, 2))
    ELSE
        LayoutRect(Rat(i % 3, 3), Rat(Trunc(i, 3), 3), Rat(1, 3), Rat(1, 3))

\* a faulty variant: the remainder goes to the last channels instead of the first
LayoutCountRemainderLast(usingClipCount, channelNo) ==
    Trunc(usingClipCount, ColorChannelCount)
      + (IF channelNo >= ColorChannelCount - (usingClipCount % ColorChannelCount)
         THEN 1 ELSE 0)

\* const div = ~~(usingClipCount / ColorChannelCount), mod = usingClipCount % ..
\* const layoutCount = div + (channelNo < mod ? 1 : 0)
LayoutCount(usingClipCount, channelNo) ==
    Trunc(usingClipCount, ColorChannelCount)
      + (IF channelNo < (usingClipCount % ColorChannelCount) THEN 1 ELSE 0)

\* the body of the channel loop for one channel, from curClipIndex
ChannelWrites(layoutCount, channelNo, curClipIndex) ==
    IF layoutCount = 0 \/ layoutCount > 9 THEN << >>
    ELSE [ i \in 1..layoutCount |->
             [ index     |-> curClipIndex + (i - 1),
               channelNo |-> channelNo,
               bounds    |-> LayoutCell(layoutCount, i - 1) ] ]

RECURSIVE LayoutFrom(_, _, _, _)
LayoutFrom(usingClipCount, channelNo, curClipIndex, acc) ==
    IF channelNo >= ColorChannelCount THEN acc
    ELSE LET layoutCount == LayoutCount(usingClipCount, channelNo)
             w == ChannelWrites(layoutCount, channelNo, curClipIndex)
         IN  LayoutFrom(usingClipCount, channelNo + 1, curClipIndex + Len(w),
                        [ writes |-> acc.writes \o w,
                          errors |-> acc.errors
                                       + (IF layoutCount > 9 THEN 1 ELSE 0) ])

LayoutWrites(usingClipCount) ==
    LayoutFrom(usingClipCount, 0, 0, [writes |-> << >>, errors |-> 0])

\* the context list after the call (every index written must be in the list)
SetupLayoutBounds(list, usingClipCount) ==
    LET ws == LayoutWrites(usingClipCount).writes
        Written(i) == { k \in 1..Len(ws) : ws[k].index = i - 1 }
    IN  [ i \in 1..Len(list) |->
            IF Written(i) = {} THEN list[i]
            ELSE LET k == CHOOSE k \in Written(i) : TRUE
                 IN  [list[i] EXCEPT !.layoutChannelNo = ws[k].channelNo,
                                     !.layoutBounds = ws[k].bounds] ]

(***************************************************************************)
(* CubismClippingManager_WebGL.calcClippedDrawTotalBounds                  *)
(* vertices[d + 1] is the list of the <<x, y>> positions of drawable d     *)
(* (getDrawableVertexCount is its length).                                 *)
(***************************************************************************)
MinOf(init, S) ==
    CHOOSE a \in S \cup {init} : \A b \in S \cup {init} : a <= b

MaxOf(init, S) ==
    CHOOSE a \in S \cup {init} : \A b \in S \cup {init} : a >= b

\* the inner loop over the vertices of one drawable
DrawableBounds(drawableVertexes) ==
    LET xs == { drawableVertexes[pi][1] : pi \in 1..Len(drawableVertexes) }
        ys == { drawableVertexes[pi][2] : pi \in 1..Len(drawableVertexes) }
    IN  [ minX |-> MinOf(NumberMaxValue, xs), minY |-> MinOf(NumberMaxValue, ys),
          maxX |-> MaxOf(NumberMinValue, xs), maxY |-> MaxOf(NumberMinValue, ys) ]

\* the part of the loop body after the "continue": the total is widened and the
\* context is written.  It runs only for a drawable that has a vertex.
ReflectBounds(acc, b) ==
    LET t == [ minX |-> IF b.minX < acc.total.minX THEN b.minX ELSE acc.total.minX,
               minY |-> IF b.minY < acc.total.minY THEN b.minY ELSE acc.total.minY,
               maxX |-> IF b.maxX > acc.total.maxX THEN b.maxX ELSE acc.total.maxX,
               maxY |-> IF b.maxY > acc.total.maxY THEN b.maxY ELSE acc.total.maxY ]
    IN  [ total |-> t,
          cc    |-> IF t.minX = NumberMaxValue
                    THEN [acc.cc EXCEPT !.allClippedDrawRect = NewRect,
                                        !.isUsing = FALSE]
                    ELSE [acc.cc EXCEPT
                            !.allClippedDrawRect =
                                [ x |-> t.minX, y |-> t.minY,
                                  width |-> t.maxX - t.minX,
                                  height |-> t.maxY - t.minY ],
                            !.isUsing = TRUE] ]

RECURSIVE CalcBoundsFrom(_, _, _)
CalcBoundsFrom(acc, clippedDrawableIndex, vertices) ==
    IF clippedDrawableIndex >= Len(acc.cc.clippedDrawableIndexList) THEN acc.cc
    ELSE LET drawableIndex == acc.cc.clippedDrawableIndexList[clippedDrawableIndex + 1]
             b == DrawableBounds(vertices[drawableIndex + 1])
         IN  IF b.minX = NumberMaxValue
             THEN CalcBoundsFrom(acc, clippedDrawableIndex + 1, vertices)
             ELSE CalcBoundsFrom(ReflectBounds(acc, b), clippedDrawableIndex + 1,
                                 vertices)

\* a faulty variant: the rectangle and the flag are cleared before the loop
CalcClippedDrawTotalBoundsResetting(vertices, clippingContext) ==
    CalcBoundsFrom([ total |-> [ minX |-> NumberMaxValue, minY |-> NumberMaxValue,
                                 maxX |-> NumberMinValue, maxY |-> NumberMinValue ],
                     cc    |-> [clippingContext EXCEPT
                                  !.allClippedDrawRect = NewRect,
                                  !.isUsing = FALSE] ],
                   0, vertices)

CalcClippedDrawTotalBounds(vertices, clippingContext) ==
    CalcBoundsFrom([ total |-> [ minX |-> NumberMaxValue, minY |-> NumberMaxValue,
                                 maxX |-> NumberMinValue, maxY |-> NumberMinValue ],
                     cc    |-> clippingContext ],
                   0, vertices)


(***************************************************************************)
(* CubismShader_WebGL.setupShaderProgram: the shader variant and the blend *)
(* function.  A blend function is <<SRC_COLOR, DST_COLOR, SRC_ALPHA,       *)
(* DST_ALPHA>>, the arguments of gl.blendFuncSeparate.                     *)
(***************************************************************************)
\* a faulty variant: the inversion flag is read for an unmasked draw as well
ShaderNameOffsetInvertedFirst(forMasked, invertedMask) ==
    IF invertedMask THEN 2 ELSE (IF forMasked THEN 1 ELSE 0)

\* const shaderNameOffset = forMasked ? (invertedMask ? 2 : 1) : 0
ShaderNameOffset(forMasked, invertedMask) ==
    IF forMasked THEN (IF invertedMask THEN 2 ELSE 1) ELSE 0

\* a faulty variant: additive and multiplicative blend functions are exchanged
BlendOfSwapped(colorBlendMode) ==
    CASE colorBlendMode = "Normal" ->
           << "ONE", "ONE_MINUS_SRC_ALPHA", "ONE", "ONE_MINUS_SRC_ALPHA" >>
      [] colorBlendMode = "Additive" ->
           << "DST_COLOR", "ONE_MINUS_SRC_ALPHA", "ZERO", "ONE" >>
      [] colorBlendMode = "Multiplicative" ->
           << "ONE", "ONE", "ZERO", "ONE" >>

\* the blend table of the switch on colorBlendMode
BlendOf(colorBlendMode) ==
    CASE colorBlendMode = "Normal" ->
           << "ONE", "ONE_MINUS_SRC_ALPHA", "ONE", "ONE_MINUS_SRC_ALPHA" >>
      [] colorBlendMode = "Additive" ->
           << "ONE", "ONE", "ZERO", "ONE" >>
      [] colorBlendMode = "Multiplicative" ->
           << "DST_COLOR", "ONE_MINUS_SRC_ALPHA", "ZERO", "ONE" >>

\* the first shader of the group of a blend mode
BaseShaderOf(colorBlendMode) ==
    CASE colorBlendMode = "Normal" -> ShaderNames_NormalPremultipliedAlpha
      [] colorBlendMode = "Additive" -> ShaderNames_AddPremultipliedAlpha
      [] colorBlendMode = "Multiplicative" -> ShaderNames_MultPremultipliedAlpha

\* const shaderContent = () => {...}: the index into _shaderSets and the blend
ShaderContent(setupMask, forMasked, colorBlendMode, invertedMask) ==
    IF setupMask
    THEN [ shaderSet |-> ShaderNames_SetupMask,
           blend     |-> << "ZERO", "ONE_MINUS_SRC_COLOR",
                            "ZERO", "ONE_MINUS_SRC_ALPHA" >> ]
    ELSE [ shaderSet |-> BaseShaderOf(colorBlendMode)
                           + ShaderNameOffset(forMasked, invertedMask),
           blend     |-> BlendOf(colorBlendMode) ]

\* CubismClippingManager_WebGL.getChannelFlagAsColor: _channelColors.at(channelNo),
\* as <<R, G, B, A>>.  Defined for the channel numbers 0..3 only.
\* a faulty variant: every channel number selects R
ChannelFlagAsColorAlwaysR(channelNo) ==
    [ c \in 1..ColorChannelCount |-> IF c = 1 THEN 1 ELSE 0 ]

ChannelFlagAsColor(channelNo) ==
    [ c \in 1..ColorChannelCount |-> IF c = channelNo + 1 THEN 1 ELSE 0 ]

\* a faulty variant: colours that are not premultiplied are rejected
SetupShaderProgramRejecting(r, colorBlendMode, invertedMask, isPremultipliedAlpha) ==
    LET setupMask == r.bufMask # NoContext
        forMasked == r.bufDraw # NoContext
        content   == ShaderContent(setupMask, forMasked, colorBlendMode, invertedMask)
        context   == IF setupMask THEN r.bufMask
                     ELSE IF forMasked THEN r.bufDraw ELSE NoContext
        channelNo == IF context = NoContext THEN NoChannel
                     ELSE r.forMask[context].layoutChannelNo
    IN  [ fault       |-> \/ ~isPremultipliedAlpha
                          \/ context # NoContext /\ channelNo = NoChannel,
          logError    |-> ~isPremultipliedAlpha,
          shaderSet   |-> content.shaderSet,
          blend       |-> content.blend,
          context     |-> context,
          channelFlag |-> IF context = NoContext \/ channelNo = NoChannel
                          THEN << >>
                          ELSE ChannelFlagAsColor(channelNo),
          clipMatrix  |-> IF setupMask THEN << r.forMask[context].matrixForMask >>
                          ELSE IF forMasked
                               THEN << r.forMask[context].matrixForDraw >>
                               ELSE << >>,
          texture1    |-> IF ~setupMask /\ forMasked THEN << r.colorBuffer >>
                          ELSE << >> ]

\* What one call binds, for the renderer r it is given: the shader and the
\* blend function, the channel flag and the clip matrix of the context, and for
\* a masked draw the colour buffer of the manager on texture unit 1 (none is
\* << >>).  A context whose
\* _layoutChannelNo was never assigned makes _channelColors.at(undefined)
\* undefined, and reading its R throws: fault.
SetupShaderProgram(r, colorBlendMode, invertedMask, isPremultipliedAlpha) ==
    LET setupMask == r.bufMask # NoContext
        forMasked == r.bufDraw # NoContext
        content   == ShaderContent(setupMask, forMasked, colorBlendMode, invertedMask)
        context   == IF setupMask THEN r.bufMask
                     ELSE IF forMasked THEN r.bufDraw ELSE NoContext
        channelNo == IF context = NoContext THEN NoChannel
                     ELSE r.forMask[context].layoutChannelNo
    IN  [ fault       |-> context # NoContext /\ channelNo = NoChannel,
          logError    |-> ~isPremultipliedAlpha,
          shaderSet   |-> content.shaderSet,
          blend       |-> content.blend,
          context     |-> context,
          channelFlag |-> IF context = NoContext \/ channelNo = NoChannel
                          THEN << >>
                          ELSE ChannelFlagAsColor(channelNo),
          clipMatrix  |-> IF setupMask THEN << r.forMask[context].matrixForMask >>
                          ELSE IF forMasked
                               THEN << r.forMask[context].matrixForDraw >>
                               ELSE << >>,
          texture1    |-> IF ~setupMask /\ forMasked THEN << r.colorBuffer >>
                          ELSE << >> ]


(***************************************************************************)
(* The renderer with its clipping manager and the WebGL state it writes.   *)
(* A renderer value r is a record:                                         *)
(*   forMask, forDraw   _clippingContextListForMask / ForDraw              *)
(*   currentFrameNo     _currentFrameNo                                    *)
(*   maskTexture        _maskTexture as [texture, frameNo]; texture is     *)
(*                      NoHandle while _maskTexture is null                *)
(*   colorBuffer        _colorBuffer                                       *)
(*   sorted             _sortedDrawableIndexList                           *)
(*   bufMask, bufDraw   _clippingContextBufferForMask / ForDraw            *)
(*   framebuffer        the framebuffer bound in the WebGL context         *)
(*   handles            the number of WebGL objects created so far         *)
(*   log                the WebGL commands issued by the current call      *)
(*   fault              an exception has left the current call             *)
(*   gl                 the context given to startUp (NoGL before)         *)
(*   managerGL          whether the clipping manager has been given gl     *)
(*   manager            the number of managers created after the first     *)
(*   clippingMaskBufferSize   _clippingMaskBufferSize of the manager       *)
(*   bufferData         _bufferData as [vertex, uv, index]                 *)
(*   program            the program in use in the WebGL context            *)
(*   deleted            the WebGL objects deleted so far                   *)
(*   isPremultipliedAlpha     what isPremultipliedAlpha() returns          *)
(*   textures           _textures, NoHandle for a slot without a texture   *)
(*   maskContent        what the colour buffer of the mask render target   *)
(*                      holds: the pairs << group, drawable >> of the mask *)
(*                      draws made into it since it was last cleared       *)
(*   s_instance         the CubismShader_WebGL singleton as [exists, gl,   *)
(*                      shaderSets]; shaderSets is << >> while _shaderSets *)
(*                      is undefined and else the program of every shader  *)
(* The static part of a model m is [drawableCount, masks, maskCounts,      *)
(* blendMode, invertedMask]; the part that changes every frame, f, is      *)
(* [vertices, isVisible, renderOrder, didChange]; all are lists indexed by *)
(* drawable.                                                               *)
(***************************************************************************)
NoHandle == 0

\* a framebuffer of the application, which it binds and passes to
\* setRenderState before the first frame
AppFramebuffer == 1

\* the viewport the application sets and passes to setRenderState before the
\* first frame, which is not of the size of a mask buffer
AppViewport == [width |-> 1, height |-> 1]

\* _clippingMaskBufferSize = 256 in the constructor of the manager
DefaultClippingMaskBufferSize == 256

\* Object.keys(ShaderNames): the ten shaders, in the order of the enum
ShaderNames ==
    ShaderNames_SetupMask..ShaderNames_MultMaskedPremultipliedAlphaInverted

\* A WebGLRenderingContext, as far as the renderer can tell two of them apart:
\*   failing   the shaders whose sources it fails to compile
\*   strict    whether a call given 0 where a WebGLProgram is expected throws
\*             a TypeError (as the bindings of the browsers do) or is taken
\*             as a call on no program
NoGL == [defined |-> FALSE, failing |-> {}, strict |-> TRUE]

GLContext(failing, strict) ==
    [defined |-> TRUE, failing |-> failing, strict |-> strict]

\* a context that builds every shader
SoundGL == GLContext({}, TRUE)

\* s_instance = null
NoInstance ==
    [exists |-> FALSE, gl |-> NoGL, shaderSets |-> << >>, generated |-> 0]

\* new CubismRenderer_WebGL(): a manager with empty lists, no attachment
\* the model texture numbers the drawables refer to
TextureSlots == {0, 1}

NewRenderer ==
    [ forMask        |-> << >>,
      forDraw        |-> << >>,
      currentFrameNo |-> 0,
      maskTexture    |-> [texture |-> NoHandle, frameNo |-> 0],
      colorBuffer    |-> NoHandle,
      sorted         |-> << >>,
      bufMask        |-> NoContext,
      bufDraw        |-> NoContext,
      framebuffer    |-> AppFramebuffer,
      viewport       |-> AppViewport,
      s_fbo          |-> AppFramebuffer,
      s_viewport     |-> AppViewport,
      handles        |-> AppFramebuffer,
      log            |-> << >>,
      fault          |-> FALSE,
      gl             |-> NoGL,
      managerGL      |-> FALSE,
      manager        |-> 0,
      clippingMaskBufferSize |-> DefaultClippingMaskBufferSize,
      bufferData     |-> [vertex |-> NoHandle, uv |-> NoHandle, index |-> NoHandle],
      program        |-> NoHandle,
      deleted        |-> {},
      isPremultipliedAlpha |-> TRUE,
      textures       |-> [ slot \in TextureSlots |-> NoHandle ],
      maskContent    |-> {},
      s_instance     |-> NoInstance ]

Emit(r, op, arg) ==
    [r EXCEPT !.log = Append(@, [op |-> op, arg |-> arg])]

\* CubismLogError(message, value) as an entry of the log
LogError(message, value) ==
    [op |-> "CubismLogError", arg |-> [message |-> message, value |-> value]]

BindFramebuffer(r, handle) ==
    [Emit(r, "bindFramebuffer", handle) EXCEPT !.framebuffer = handle]

\* gl.viewport(0, 0, width, height)
Viewport(r, viewport) ==
    [Emit(r, "viewport", viewport) EXCEPT !.viewport = viewport]

\* CubismRenderer_WebGL.setRenderState(fbo, viewport)
RendererSetRenderState(r, fbo, viewport) ==
    [r EXCEPT !.s_fbo = fbo, !.s_viewport = viewport]

\* model.isUsingMasking()
IsUsingMasking(m) ==
    \E i \in 1..m.drawableCount : m.maskCounts[i] > 0

\* new CubismClippingManager_WebGL() followed by initialize: the manager that
\* replaces the one of r has the lists of the model, no render texture, frame
\* number 0, the default buffer size and no gl
NewManager(r, m) ==
    LET lists == ManagerInitialize(NewManagerLists, m.drawableCount,
                                   m.masks, m.maskCounts)
    IN  [r EXCEPT !.forMask = lists.forMask,
                  !.forDraw = lists.forDraw,
                  !.currentFrameNo = 0,
                  !.maskTexture = [texture |-> NoHandle, frameNo |-> 0],
                  !.colorBuffer = NoHandle,
                  !.maskContent = {},
                  !.clippingMaskBufferSize = DefaultClippingMaskBufferSize,
                  !.managerGL = FALSE,
                  !.manager = @ + 1]

\* CubismRenderer_WebGL.initialize: a new manager when the model uses masks,
\* and _sortedDrawableIndexList.resize(drawableCount, 0)
RendererInitialize(r, m) ==
    LET r1 == IF IsUsingMasking(m) THEN NewManager(r, m) ELSE r
    IN  [r1 EXCEPT !.sorted = [i \in 1..m.drawableCount |-> 0]]

\* CubismShader_WebGL.getInstance: a new instance has no gl and no _shaderSets
GetInstance(r) ==
    IF r.s_instance.exists THEN r
    ELSE [r EXCEPT !.s_instance =
                      [exists |-> TRUE, gl |-> NoGL, shaderSets |-> << >>,
                       generated |-> 0]]

\* CubismRenderer_WebGL.startUp(gl)
RendererStartUp(r, gl) ==
    [GetInstance(r) EXCEPT !.gl = gl,
                           !.managerGL = TRUE,
                           !.s_instance.gl = gl]

\* gl.deleteFramebuffer, gl.deleteTexture, gl.deleteBuffer, gl.deleteProgram
Delete(r, op, handle) ==
    [Emit(r, op, handle) EXCEPT !.deleted = @ \cup ({handle} \ {NoHandle})]

\* CubismClippingManager_WebGL.release: this.gl of a manager that was never
\* given gl is undefined, and the first call on it throws
ManagerRelease(r) ==
    IF ~r.managerGL THEN [r EXCEPT !.fault = TRUE]
    ELSE LET r1 == IF r.maskTexture.texture # NoHandle
                   THEN Delete(r, "deleteFramebuffer", r.maskTexture.texture)
                   ELSE r
         IN  Delete(r1, "deleteTexture", r.colorBuffer)

\* CubismRenderer_WebGL.release
RendererRelease(r) ==
    LET r1 == ManagerRelease([r EXCEPT !.log = << >>, !.fault = FALSE])
        r2 == Delete(r1, "deleteBuffer", r.bufferData.vertex)
        r3 == Delete(r2, "deleteBuffer", r.bufferData.uv)
    IN  IF r1.fault THEN r1 ELSE Delete(r3, "deleteBuffer", r.bufferData.index)

\* CubismRenderer_WebGL.setClippingMaskBufferSize(size)
RendererSetClippingMaskBufferSize(r, m, size) ==
    LET r1 == ManagerRelease([r EXCEPT !.log = << >>, !.fault = FALSE])
    IN  IF r1.fault THEN r1
        ELSE [NewManager(r1, m) EXCEPT !.clippingMaskBufferSize = size]

\* a faulty variant: the texture that exists is not looked for, a new pair
\* is created by every call
GetMaskRenderTextureAlwaysNew(r) ==
    LET colorBuffer == r.handles + 1
        buffer      == r.handles + 2
        r1 == Emit([r EXCEPT !.handles = buffer, !.colorBuffer = colorBuffer,
                             !.maskContent = {}],
                   "createTexture", colorBuffer)
        r2 == Emit(r1, "createFramebuffer", buffer)
        r3 == BindFramebuffer(r2, buffer)
        r4 == BindFramebuffer(r3, r.s_fbo)
    IN  [r4 EXCEPT !.maskTexture =
                       [texture |-> buffer, frameNo |-> r.currentFrameNo]]

\* CubismClippingManager_WebGL.getMaskRenderTexture
GetMaskRenderTexture(r) ==
    IF r.maskTexture.texture # NoHandle
    THEN [r EXCEPT !.maskTexture.frameNo = r.currentFrameNo]
    ELSE LET colorBuffer == r.handles + 1
             buffer      == r.handles + 2
             r1 == Emit([r EXCEPT !.handles = buffer, !.colorBuffer = colorBuffer,
                                  !.maskContent = {}],
                        "createTexture", colorBuffer)
             r2 == Emit(r1, "texImage2D",
                        [ texture |-> colorBuffer,
                          width   |-> r.clippingMaskBufferSize,
                          height  |-> r.clippingMaskBufferSize ])
             r3 == Emit(r2, "createFramebuffer", buffer)
             r4 == BindFramebuffer(r3, buffer)
             r5 == BindFramebuffer(r4, r.s_fbo)
         IN  [r5 EXCEPT !.maskTexture =
                            [texture |-> buffer, frameNo |-> r.currentFrameNo]]

\* CubismShader_WebGL.loadShaderProgram for the shader `name`, given the
\* program createProgram has made: 0 when a source does not compile
LoadShaderProgram(gl, name, program) ==
    IF name \in gl.failing THEN NoHandle ELSE program

\* CubismShader_WebGL.generateShaders.  Every shader, in the order of the
\* enum, is loaded and its locations are looked up with the handle returned,
\* 0 included; _shaderSets is assigned when all ten are done.  In a strict
\* context the lookup with 0 throws and _shaderSets stays undefined.
\* `generated` counts the runs of the method on the instance.
GenerateShaders(r) ==
    LET r0     == [r EXCEPT !.s_instance.generated = @ + 1]
        gl     == r.s_instance.gl
        loaded == [ k \in 1..Cardinality(ShaderNames) |->
                      LoadShaderProgram(gl, k - 1, r.handles + k) ]
        failed == { name \in ShaderNames : loaded[name + 1] = NoHandle }
        first  == CHOOSE name \in failed : \A other \in failed : name <= other
        reached == IF failed # {} /\ gl.strict THEN 0..first ELSE ShaderNames
        IsError(e) == e.arg.value \in failed /\ e.arg.value \in reached
        errors == SelectSeq([ k \in 1..Cardinality(ShaderNames) |->
                                LogError("shader compile error", k - 1) ],
                            IsError)
        r1 == [r0 EXCEPT !.log = @ \o errors,
                         !.handles = @ + Cardinality(reached)]
    IN  IF ~gl.defined THEN [r0 EXCEPT !.fault = TRUE]
        ELSE IF failed # {} /\ gl.strict THEN [r1 EXCEPT !.fault = TRUE]
        ELSE [r1 EXCEPT !.s_instance.shaderSets = loaded]

\* CubismShader_WebGL.releaseShaderProgram.  Object.keys(undefined) throws
\* while _shaderSets is undefined.
ReleaseShaderProgram(r) ==
    LET RECURSIVE DeleteFrom(_, _)
        DeleteFrom(q, k) ==
            IF k > Len(r.s_instance.shaderSets) THEN q
            ELSE DeleteFrom(Delete(q, "deleteProgram", r.s_instance.shaderSets[k]),
                            k + 1)
    IN  IF r.s_instance.shaderSets = << >> \/ ~r.s_instance.gl.defined
        THEN [r EXCEPT !.fault = TRUE]
        ELSE DeleteFrom(r, 1)

\* CubismShader_WebGL.deleteInstance (and doStaticRelease)
DeleteInstance(r) ==
    LET r0 == [r EXCEPT !.log = << >>, !.fault = FALSE]
        r1 == ReleaseShaderProgram(r0)
    IN  IF ~r.s_instance.exists THEN r0
        ELSE IF r1.fault THEN r1
        ELSE [r1 EXCEPT !.s_instance = NoInstance]

\* the buffers setupShaderProgram creates when _bufferData has none
CreateBuffers(r) ==
    IF r.bufferData.vertex # NoHandle THEN r
    ELSE [r EXCEPT !.bufferData = [ vertex |-> r.handles + 1,
                                    uv     |-> r.handles + 2,
                                    index  |-> r.handles + 3 ],
                   !.handles = @ + 3]

\* the first statements of setupShaderProgram: the error logged for colours
\* that are not premultiplied, and the shaders generated when there are none
PrepareShaders(r, isPremultipliedAlpha) ==
    LET r1 == GetInstance(r)
        r2 == IF isPremultipliedAlpha THEN r1
              ELSE [r1 EXCEPT !.log =
                      Append(@, LogError("NoPremultipliedAlpha is not allowed", 0))]
    IN  IF r2.s_instance.shaderSets = << >> THEN GenerateShaders(r2)
        ELSE IF ~r2.s_instance.gl.defined THEN [r2 EXCEPT !.fault = TRUE]
        ELSE r2

\* model.getDrawableTextureIndices(drawableIndex) of the models below: the
\* drawables use the texture slots 0 and 1 in turn
DrawableTextureIndices(drawableIndex) ==
    drawableIndex % 2

\* csmMap.getValue(key): the value last set for the key, none (undefined) for a
\* key that was never set
TexturesGetValue(textures, key) ==
    textures[key]

\* csmMap.setValue(key, value)
TexturesSetValue(textures, key, value) ==
    [textures EXCEPT ![key] = value]

\* a faulty variant: a slot keeps the first texture it was given
RendererBindTextureKeepFirst(r, modelTextureNo, glTexture) ==
    IF TexturesGetValue(r.textures, modelTextureNo) # NoHandle THEN r
    ELSE [r EXCEPT !.textures = TexturesSetValue(@, modelTextureNo, glTexture)]

\* CubismRenderer_WebGL.bindTexture(modelTextureNo, glTexture)
RendererBindTexture(r, modelTextureNo, glTexture) ==
    [r EXCEPT !.textures = TexturesSetValue(@, modelTextureNo, glTexture)]

\* CubismRenderer_WebGL.drawMesh, called from `caller` for drawable drawableIndex.
\* The texture is looked up in _textures, null (NoHandle) for a slot without one;
\* setupShaderProgram uses the program and creates the buffers before it reads
\* the channel of the context; drawElements follows whatever the program is.
\* A setup-mask draw into the mask render target leaves the mask of the
\* drawable in the region of the group.
DrawMesh(r, caller, drawableIndex, colorBlendMode, invertedMask) ==
    IF r.fault THEN r
    ELSE CHOOSE after \in {
         LET textureNo == DrawableTextureIndices(drawableIndex)
             drawtexture == IF TexturesGetValue(r.textures, textureNo) # NoHandle
                            THEN TexturesGetValue(r.textures, textureNo)
                            ELSE NoHandle
             sp == SetupShaderProgram(q, colorBlendMode, invertedMask,
                                      r.isPremultipliedAlpha)
             program == q.s_instance.shaderSets[sp.shaderSet + 1]
             q1 == CreateBuffers([q EXCEPT !.program = program])
         IN  IF q.fault THEN q
             ELSE IF sp.fault THEN [q1 EXCEPT !.fault = TRUE]
             ELSE [ Emit(q1, "drawElements",
                         [ caller         |-> caller,
                           drawable       |-> drawableIndex,
                           shaderSet      |-> sp.shaderSet,
                           program        |-> program,
                           blend          |-> sp.blend,
                           framebuffer    |-> r.framebuffer,
                           viewport       |-> r.viewport,
                           maskContext    |-> r.bufMask,
                           drawContext    |-> r.bufDraw,
                           channelFlag    |-> sp.channelFlag,
                           clipMatrix     |-> sp.clipMatrix,
                           texture0       |-> drawtexture,
                           texture1       |-> sp.texture1,
                           colorBlendMode |-> colorBlendMode,
                           invertedMask   |-> invertedMask ])
                    EXCEPT !.program = NoHandle,
                           !.maskContent =
                               IF r.bufMask # NoContext
                                  /\ r.framebuffer = r.maskTexture.texture
                               THEN @ \cup { << r.bufMask, drawableIndex >> }
                               ELSE @,
                           !.bufDraw = NoContext, !.bufMask = NoContext ]
         : q \in { PrepareShaders(r, r.isPremultipliedAlpha) } } : TRUE

(***************************************************************************)
(* CubismClippingManager_WebGL.setupClippingContext                        *)
(***************************************************************************)
\* a faulty variant: a context that is not in use is built anew from its ids
CalcAllBoundsRebuilding(forMask, vertices) ==
    [ clipIndex \in 1..Len(forMask) |->
        LET cc == CalcClippedDrawTotalBounds(vertices, forMask[clipIndex])
        IN  IF cc.isUsing THEN cc
            ELSE NewClippingContext(cc.clippingIdList, cc.clippingIdCount) ]

\* the first loop: the bounds of every context
CalcAllBounds(forMask, vertices) ==
    [ clipIndex \in 1..Len(forMask) |->
        CalcClippedDrawTotalBounds(vertices, forMask[clipIndex]) ]

UsingClipCount(forMask) ==
    Cardinality({ clipIndex \in 1..Len(forMask) : forMask[clipIndex].isUsing })

MARGIN == Rat(1, 20)

RatRect(rect) ==
    [ x |-> Rat(rect.x, 1), y |-> Rat(rect.y, 1),
      width |-> Rat(rect.width, 1), height |-> Rat(rect.height, 1) ]

\* boundsOnModel: the rectangle of the context with its margin
BoundsOnModel(clipContext) ==
    LET allClipedDrawRect == RatRect(clipContext.allClippedDrawRect)
    IN  Expand(allClipedDrawRect, RatMul(allClipedDrawRect.width, MARGIN),
               RatMul(allClipedDrawRect.height, MARGIN))

\* a faulty variant: the scale is taken from the rectangle without its margin
CalcMatrixUnexpandedScale(clipContext, preProcessed) ==
    LET layoutBoundsOnTex01 == clipContext.layoutBounds
        boundsOnModel == BoundsOnModel(clipContext)
        scaleX == RatDiv(layoutBoundsOnTex01.width,
                         Rat(clipContext.allClippedDrawRect.width, 1))
        scaleY == RatDiv(layoutBoundsOnTex01.height,
                         Rat(clipContext.allClippedDrawRect.height, 1))
        m1 == TranslateRelative(preProcessed, layoutBoundsOnTex01.x,
                                layoutBoundsOnTex01.y)
        m2 == ScaleRelative(m1, scaleX, scaleY)
    IN  TranslateRelative(m2, RatNeg(boundsOnModel.x), RatNeg(boundsOnModel.y))

\* calcMatrix(preProcess), given the new matrix after preProcess
CalcMatrix(clipContext, preProcessed) ==
    LET layoutBoundsOnTex01 == clipContext.layoutBounds
        boundsOnModel == BoundsOnModel(clipContext)
        scaleX == RatDiv(layoutBoundsOnTex01.width, boundsOnModel.width)
        scaleY == RatDiv(layoutBoundsOnTex01.height, boundsOnModel.height)
        m1 == TranslateRelative(preProcessed, layoutBoundsOnTex01.x,
                                layoutBoundsOnTex01.y)
        m2 == ScaleRelative(m1, scaleX, scaleY)
    IN  TranslateRelative(m2, RatNeg(boundsOnModel.x), RatNeg(boundsOnModel.y))

\* the head of the body of the mask loop: both matrices of the context
SetupMatrices(clipContext) ==
    [clipContext EXCEPT
       !.matrixForMask =
           CalcMatrix(clipContext,
                      ScaleRelative(TranslateRelative(NewMatrix, Rat(-1, 1), Rat(-1, 1)),
                                    Rat(2, 1), Rat(2, 1))),
       !.matrixForDraw = CalcMatrix(clipContext, NewMatrix)]

\* the inner loop of the mask loop: the masks of context clipIndex (0-based)
\* from its id number i
RECURSIVE MaskDrawsOfContext(_, _, _, _)
MaskDrawsOfContext(r, clipIndex, i, f) ==
    IF r.fault \/ i >= r.forMask[clipIndex + 1].clippingIdCount THEN r
    ELSE LET clipDrawIndex == r.forMask[clipIndex + 1].clippingIdList[i + 1]
         IN  IF ~f.didChange[clipDrawIndex + 1]
             THEN MaskDrawsOfContext(r, clipIndex, i + 1, f)
             ELSE CHOOSE after \in
                    { MaskDrawsOfContext(d, clipIndex, i + 1, f) :
                        d \in { DrawMesh([r EXCEPT !.bufMask = clipIndex + 1],
                                         "setupClippingContext", clipDrawIndex,
                                         "Normal", FALSE) } } : TRUE

\* the mask loop over the contexts lo .. hi - 1 in list order (the range is
\* halved to keep the evaluation shallow): the matrices of a context, then
\* its masks
RECURSIVE MaskDrawsFrom(_, _, _, _)
MaskDrawsFrom(r, lo, hi, f) ==
    IF r.fault \/ lo >= hi THEN r
    ELSE IF hi = lo + 1
    THEN CHOOSE after \in
           { MaskDrawsOfContext(r0, lo, 0, f) :
               r0 \in { [r EXCEPT !.forMask[lo + 1] = SetupMatrices(@)] } } : TRUE
    ELSE LET mid == lo + ((hi - lo) \div 2)
         IN  CHOOSE after \in
               { MaskDrawsFrom(half, mid, hi, f) :
                   half \in { MaskDrawsFrom(r, lo, mid, f) } } : TRUE

\* the errors setupLayoutBounds logs
LogLayoutErrors(r, usingClipCount) ==
    LET IsOver(e) == e.arg.value > 9
        all == [ c \in 1..ColorChannelCount |->
                   LogError("not supported mask count",
                            LayoutCount(usingClipCount, c - 1)) ]
    IN  [r EXCEPT !.log = @ \o SelectSeq(all, IsOver)]

\* a faulty variant: the mask render target stays bound and the viewport
\* stays that of the mask buffer when the masks are drawn
MaskPassKeepingTarget(r, usingClipCount, f) ==
    LET r1 == Viewport(r, [ width  |-> r.clippingMaskBufferSize,
                            height |-> r.clippingMaskBufferSize ])
        r2 == GetMaskRenderTexture(r1)
        r3 == [LogLayoutErrors(r2, usingClipCount) EXCEPT
                 !.forMask = SetupLayoutBounds(r2.forMask, usingClipCount)]
        r4 == BindFramebuffer(r3, r3.maskTexture.texture)
        r5 == [Emit(r4, "clear", << 1, 1, 1, 1 >>) EXCEPT !.maskContent = {}]
        r6 == CHOOSE after \in
                { MaskDrawsFrom(cleared, 0, Len(cleared.forMask), f) :
                    cleared \in { r5 } } : TRUE
    IN  IF ~r.managerGL THEN [r EXCEPT !.fault = TRUE]
        ELSE IF r6.fault THEN r6 ELSE [r6 EXCEPT !.bufMask = NoContext]

\* the branch taken when usingClipCount > 0; this.gl of a manager that was
\* never given gl is undefined, and gl.viewport throws
MaskPass(r, usingClipCount, f) ==
    LET r1 == Viewport(r, [ width  |-> r.clippingMaskBufferSize,
                            height |-> r.clippingMaskBufferSize ])
        r2 == GetMaskRenderTexture(r1)
        r3 == [LogLayoutErrors(r2, usingClipCount) EXCEPT
                 !.forMask = SetupLayoutBounds(r2.forMask, usingClipCount)]
        r4 == BindFramebuffer(r3, r3.maskTexture.texture)
        r5 == [Emit(r4, "clear", << 1, 1, 1, 1 >>) EXCEPT !.maskContent = {}]
        r6 == CHOOSE after \in
                { MaskDrawsFrom(cleared, 0, Len(cleared.forMask), f) :
                    cleared \in { r5 } } : TRUE
        r7 == [BindFramebuffer(r6, r.s_fbo) EXCEPT !.bufMask = NoContext]
    IN  IF ~r.managerGL THEN [r EXCEPT !.fault = TRUE]
        ELSE IF r6.fault THEN r6 ELSE Viewport(r7, r.s_viewport)

\* a faulty variant: the masks are set up whether or not a context is in use
SetupClippingContextAlways(r, f) ==
    LET r1 == [r EXCEPT !.currentFrameNo = @ + 1,
                        !.forMask = CalcAllBounds(r.forMask, f.vertices)]
        usingClipCount == UsingClipCount(r1.forMask)
    IN  MaskPass(r1, usingClipCount, f)

SetupClippingContext(r, f) ==
    LET r1 == [r EXCEPT !.currentFrameNo = @ + 1,
                        !.forMask = CalcAllBounds(r.forMask, f.vertices)]
        usingClipCount == UsingClipCount(r1.forMask)
    IN  IF usingClipCount > 0 THEN MaskPass(r1, usingClipCount, f) ELSE r1

(***************************************************************************)
(* CubismRenderer_WebGL.doDrawModel                                        *)
(***************************************************************************)
\* a faulty variant: the arguments of set are exchanged, set(i, renderOrder[i])
RECURSIVE SortFromSwapped(_, _, _)
SortFromSwapped(sorted, i, renderOrder) ==
    IF i >= Len(renderOrder) THEN sorted
    ELSE SortFromSwapped([sorted EXCEPT ![i + 1] = renderOrder[i + 1]], i + 1,
                         renderOrder)

\* for (i...) this._sortedDrawableIndexList.set(renderOrder[i], i)
RECURSIVE SortFrom(_, _, _)
SortFrom(sorted, i, renderOrder) ==
    IF i >= Len(renderOrder) THEN sorted
    ELSE SortFrom([sorted EXCEPT ![renderOrder[i + 1] + 1] = i], i + 1, renderOrder)

\* getClippingContextListForDraw().at(drawableIndex): undefined, which the
\* renderer reads as no context, when the list is empty
ContextForDraw(r, drawableIndex) ==
    IF drawableIndex + 1 \in 1..Len(r.forDraw)
    THEN r.forDraw[drawableIndex + 1] ELSE NoContext

\* the loop that draws the drawables, over the positions lo .. hi - 1 of the
\* sorted list in order (the range is halved to keep the evaluation shallow)
RECURSIVE ScreenDrawsFrom(_, _, _, _, _)
ScreenDrawsFrom(r, lo, hi, m, f) ==
    IF r.fault \/ lo >= hi THEN r
    ELSE IF hi = lo + 1
    THEN LET drawableIndex == r.sorted[lo + 1]
         IN  IF ~f.isVisible[drawableIndex + 1] THEN r
             ELSE DrawMesh([r EXCEPT !.bufDraw = ContextForDraw(r, drawableIndex)],
                           "doDrawModel", drawableIndex,
                           m.blendMode[drawableIndex + 1],
                           m.invertedMask[drawableIndex + 1])
    ELSE LET mid == lo + ((hi - lo) \div 2)
         IN  CHOOSE after \in
               { ScreenDrawsFrom(half, mid, hi, m, f) :
                   half \in { ScreenDrawsFrom(r, lo, mid, m, f) } } : TRUE

ScreenPass(r, m, f) ==
    IF r.fault THEN r
    ELSE CHOOSE after \in
           { ScreenDrawsFrom(sorted, 0, m.drawableCount, m, f) :
               sorted \in { [r EXCEPT !.sorted =
                                         SortFrom(r.sorted, 0, f.renderOrder)] } } : TRUE

\* a faulty variant: the masks are set up after the drawables have been drawn
DoDrawModelMasksLast(r, m, f) ==
    SetupClippingContext(ScreenPass([r EXCEPT !.log = << >>, !.fault = FALSE], m, f), f)

\* one call of doDrawModel; the log and the fault are those of this call
DoDrawModel(r, m, f) ==
    ScreenPass(SetupClippingContext([r EXCEPT !.log = << >>, !.fault = FALSE], f),
               m, f)


(***************************************************************************)
(* State                                                                   *)
(***************************************************************************)
VARIABLES
    model,      \* the static part of the CubismModel the renderer was given
    frame,      \* the per-frame part of the model read by the current call
    renderer,   \* the CubismRenderer_WebGL, its manager and the WebGL state
    phase,      \* "constructed", "initialized", "ready" (started up, between
                \* calls), "drawn" (a call has ended)
    call        \* the last direct call of a method outside doDrawModel

vars == << model, frame, renderer, phase, call >>

NoFrame == [vertices |-> << >>, isVisible |-> << >>, renderOrder |-> << >>,
            didChange |-> << >>]

NoCall == [op |-> "none"]

(***************************************************************************)
(* The models and the frames the renderer is run on                        *)
(***************************************************************************)
StaticModel(masks, blendMode, invertedMask) ==
    [ drawableCount |-> Len(masks),
      masks         |-> masks,
      maskCounts    |-> [i \in 1..Len(masks) |-> Len(masks[i])],
      blendMode     |-> blendMode,
      invertedMask  |-> invertedMask ]

\* drawable 0 (A) is masked by drawable 1 (B)
ModelAB ==
    StaticModel(<< <<1>>, << >> >>, << "Normal", "Normal" >>, << FALSE, FALSE >>)

\* two groups: drawable 1 is masked by 0, drawable 2 by 1
ModelTwoGroups ==
    StaticModel(<< << >>, <<0>>, <<1>> >>,
                << "Normal", "Additive", "Multiplicative" >>,
                << FALSE, TRUE, FALSE >>)

\* one group that clips two drawables
ModelSharedGroup ==
    StaticModel(<< << >>, <<0>>, <<0>> >>,
                << "Multiplicative", "Normal", "Additive" >>,
                << TRUE, FALSE, TRUE >>)

\* no masks at all
ModelNoMask ==
    StaticModel(<< << >>, << >> >>, << "Additive", "Normal" >>, << FALSE, TRUE >>)

Models == { ModelAB, ModelTwoGroups, ModelSharedGroup, ModelNoMask }

\* the vertex lists a drawable can have in a frame
SomeVertices == << <<1, 1>>, <<3, 2>> >>
VertexChoices == { << >>, SomeVertices }

Drawables(m) == 0..(m.drawableCount - 1)

\* the drawables some context clips, and those some context uses as a mask
ClippedDrawables(m) == { d \in Drawables(m) : m.maskCounts[d + 1] > 0 }
MaskSources(m) ==
    UNION { { m.masks[d + 1][k] : k \in 1..m.maskCounts[d + 1] } :
              d \in ClippedDrawables(m) }

IdentityOrder(m) == [i \in 1..m.drawableCount |-> i - 1]
ReverseOrder(m) == [i \in 1..m.drawableCount |-> m.drawableCount - i]

\* Frames of the mask specification: the vertices of the clipped drawables,
\* the changed flag of the mask sources and the visibility vary.
MaskFrames(m) ==
    { [ vertices    |-> v, isVisible |-> vis, renderOrder |-> o, didChange |-> c ] :
        v \in { w \in [1..m.drawableCount -> VertexChoices] :
                  \A d \in Drawables(m) \ ClippedDrawables(m) :
                      w[d + 1] = SomeVertices },
        vis \in [1..m.drawableCount -> BOOLEAN],
        o \in { IdentityOrder(m), ReverseOrder(m) },
        c \in { w \in [1..m.drawableCount -> BOOLEAN] :
                  \A d \in Drawables(m) \ MaskSources(m) : w[d + 1] } }

\* Frames of the order specification: every array of render orders within
\* 0..drawableCount-1, repeated values included, and the visibility vary; the
\* clipped drawables have vertices, or none of them has.
OrderFrames(m) ==
    { [ vertices    |-> v, isVisible   |-> vis, renderOrder |-> o,
        didChange   |-> [i \in 1..m.drawableCount |-> TRUE] ] :
        v \in { [i \in 1..m.drawableCount |-> SomeVertices],
                [i \in 1..m.drawableCount |->
                   IF i - 1 \in ClippedDrawables(m) THEN << >> ELSE SomeVertices] },
        vis \in [1..m.drawableCount -> BOOLEAN],
        o \in [1..m.drawableCount -> Drawables(m)] }

(***************************************************************************)
(* The renderer over frames                                                *)
(***************************************************************************)
Init ==
    /\ model \in Models
    /\ frame = NoFrame
    /\ renderer = NewRenderer
    /\ phase = "constructed"
    /\ call = NoCall

\* CubismRenderer_WebGL.initialize(model)
Initialize ==
    /\ phase = "constructed"
    /\ renderer' = RendererInitialize(renderer, model)
    /\ phase' = "initialized"
    /\ UNCHANGED << model, frame, call >>

\* CubismRenderer_WebGL.startUp(gl) on the initialized renderer
StartUpWith(gl) ==
    /\ phase = "initialized"
    /\ renderer' = RendererStartUp(renderer, gl)
    /\ phase' = "ready"
    /\ UNCHANGED << model, frame, call >>

StartUp == StartUpWith(SoundGL)

\* one call of doDrawModel on the frame f of the model
Draw(f) ==
    /\ phase = "ready"
    /\ renderer.currentFrameNo < MaxFrames
    /\ frame' = f
    /\ renderer' = DoDrawModel(renderer, model, f)
    /\ phase' = "drawn"
    /\ UNCHANGED << model, call >>

\* the call has returned: its command stream is handed over and the model is
\* free to change before the next call
EndDraw ==
    /\ phase = "drawn"
    /\ frame' = NoFrame
    /\ renderer' = [renderer EXCEPT !.log = << >>, !.fault = FALSE]
    /\ phase' = "ready"
    /\ UNCHANGED << model, call >>

DrawMaskFrame == \E f \in MaskFrames(model) : Draw(f)

DrawOrderFrame == \E f \in OrderFrames(model) : Draw(f)

Next ==
    \/ Initialize
    \/ StartUp
    \/ DrawMaskFrame
    \/ EndDraw

Spec == Init /\ [][Next]_vars

NextOrder ==
    \/ Initialize
    \/ StartUp
    \/ DrawOrderFrame
    \/ EndDraw

SpecOrder == Init /\ [][NextOrder]_vars


(***************************************************************************)
(* findSameClip called on an initialized manager                           *)
(***************************************************************************)
\* the ids a mask list of the two-drawable models can hold
MaskIds == {0, 1}

MaskLists == UNION { [1..n -> MaskIds] : n \in 1..MaxMaskLen }

\* every model of two drawables whose mask lists are arbitrary (repeated ids
\* and empty lists included)
FindModels ==
    { StaticModel(<< a, b >>, << "Normal", "Normal" >>, << FALSE, FALSE >>) :
        a \in MaskLists \cup { << >> }, b \in MaskLists \cup { << >> } }

InitFind ==
    /\ model \in FindModels
    /\ frame = NoFrame
    /\ renderer = NewRenderer
    /\ phase = "constructed"
    /\ call = NoCall

FindSameClipCall ==
    /\ phase = "ready"
    /\ call = NoCall
    /\ \E ids \in MaskLists : \E count \in 1..Len(ids) :
         call' = [ op                 |-> "findSameClip",
                   drawableMasks      |-> ids,
                   drawableMaskCounts |-> count,
                   result             |-> FindSameClip(renderer.forMask, ids, count) ]
    /\ UNCHANGED << model, frame, renderer, phase >>

NextFind ==
    \/ Initialize
    \/ StartUp
    \/ FindSameClipCall

SpecFind == InitFind /\ [][NextFind]_vars

(***************************************************************************)
(* setupLayoutBounds called on a manager of n contexts                     *)
(***************************************************************************)
\* a model of n + 1 drawables with n different mask lists: drawable i is
\* masked by drawable i - 1
ChainModel(n) ==
    StaticModel([i \in 1..(n + 1) |-> IF i = 1 THEN << >> ELSE << i - 2 >>],
                [i \in 1..(n + 1) |-> "Normal"],
                [i \in 1..(n + 1) |-> FALSE])

InitLayout ==
    /\ model \in { ChainModel(n) : n \in 0..MaxClips }
    /\ frame = NoFrame
    /\ renderer = NewRenderer
    /\ phase = "constructed"
    /\ call = NoCall

SetupLayoutBoundsCall ==
    /\ phase = "ready"
    /\ call = NoCall
    /\ \E usingClipCount \in 0..Len(renderer.forMask) :
         /\ renderer' = [renderer EXCEPT
                           !.forMask = SetupLayoutBounds(@, usingClipCount)]
         /\ call' = [ op             |-> "setupLayoutBounds",
                      usingClipCount |-> usingClipCount,
                      errors         |-> LayoutWrites(usingClipCount).errors ]
    /\ UNCHANGED << model, frame, phase >>

NextLayout ==
    \/ Initialize
    \/ StartUp
    \/ SetupLayoutBoundsCall

SpecLayout == InitLayout /\ [][NextLayout]_vars

(***************************************************************************)
(* setupShaderProgram called with every attachment and every flag          *)
(***************************************************************************)
\* a frame in which every drawable has vertices, is visible and has changed
FullFrame(m) ==
    [ vertices    |-> [i \in 1..m.drawableCount |-> SomeVertices],
      isVisible   |-> [i \in 1..m.drawableCount |-> TRUE],
      renderOrder |-> IdentityOrder(m),
      didChange   |-> [i \in 1..m.drawableCount |-> TRUE] ]

DrawFullFrame == Draw(FullFrame(model))

\* the renderer draws premultiplied colours or not (isPremultipliedAlpha())
InitShader ==
    /\ model \in Models
    /\ frame = NoFrame
    /\ renderer \in { [NewRenderer EXCEPT !.isPremultipliedAlpha = b] :
                        b \in BOOLEAN }
    /\ phase = "constructed"
    /\ call = NoCall

SetupShaderProgramCall ==
    /\ phase = "ready"
    /\ call = NoCall
    /\ \E bufMask \in {NoContext} \cup (1..Len(renderer.forMask)) :
       \E bufDraw \in {NoContext} \cup (1..Len(renderer.forMask)) :
       \E colorBlendMode \in CubismBlendModes :
       \E invertedMask \in BOOLEAN :
       \E isPremultipliedAlpha \in BOOLEAN :
         call' = [ op                   |-> "setupShaderProgram",
                   bufMask              |-> bufMask,
                   bufDraw              |-> bufDraw,
                   colorBlendMode       |-> colorBlendMode,
                   invertedMask         |-> invertedMask,
                   isPremultipliedAlpha |-> isPremultipliedAlpha,
                   result |-> SetupShaderProgram(
                                [renderer EXCEPT !.bufMask = bufMask,
                                                 !.bufDraw = bufDraw],
                                colorBlendMode, invertedMask,
                                isPremultipliedAlpha) ]
    /\ UNCHANGED << model, frame, renderer, phase >>

NextShader ==
    \/ Initialize
    \/ StartUp
    \/ DrawFullFrame
    \/ EndDraw
    \/ SetupShaderProgramCall

SpecShader == InitShader /\ [][NextShader]_vars

(***************************************************************************)
(* Frames of a model of n groups, all in use                               *)
(***************************************************************************)
NextLimit ==
    \/ Initialize
    \/ StartUp
    \/ DrawFullFrame
    \/ EndDraw

SpecLimit == InitLayout /\ [][NextLimit]_vars

(***************************************************************************)
(* The renderer resized and released                                       *)
(***************************************************************************)
\* the sizes given to setClippingMaskBufferSize
MaskBufferSizes == { DefaultClippingMaskBufferSize, 2 * DefaultClippingMaskBufferSize }

\* a frame in which no clipped drawable has a vertex
NoVertexFrame(m) ==
    [ FullFrame(m) EXCEPT
        !.vertices = [i \in 1..m.drawableCount |->
                        IF i - 1 \in ClippedDrawables(m) THEN << >>
                        ELSE SomeVertices] ]

LifeFrames(m) == { FullFrame(m), NoVertexFrame(m) }

\* doDrawModel on a renderer that has not been released
DrawLifeFrame ==
    /\ call.op # "release"
    /\ \E f \in LifeFrames(model) : Draw(f)

\* CubismRenderer_WebGL.setClippingMaskBufferSize(size) between two frames
SetClippingMaskBufferSize ==
    /\ phase = "ready"
    /\ call.op # "release"
    /\ renderer.manager < MaxManagers
    /\ \E size \in MaskBufferSizes :
         /\ renderer' = RendererSetClippingMaskBufferSize(renderer, model, size)
         /\ call' = [ op   |-> "setClippingMaskBufferSize",
                      size |-> size,
                      old  |-> renderer.maskTexture.texture ]
    /\ UNCHANGED << model, frame, phase >>

\* CubismRenderer_WebGL.release(); `first` is what the first call deleted
Release ==
    /\ phase = "ready"
    /\ call.op = "release" => call.nth < MaxReleases
    /\ renderer' = RendererRelease(renderer)
    /\ call' = [ op    |-> "release",
                 nth   |-> IF call.op = "release" THEN call.nth + 1 ELSE 1,
                 first |-> IF call.op = "release" THEN call.first
                           ELSE RendererRelease(renderer).deleted \ renderer.deleted ]
    /\ UNCHANGED << model, frame, phase >>

NextLife ==
    \/ Initialize
    \/ StartUp
    \/ DrawLifeFrame
    \/ EndDraw
    \/ SetClippingMaskBufferSize
    \/ Release

SpecLife == Init /\ [][NextLife]_vars

(***************************************************************************)
(* The shaders of a context that fails to build some of them               *)
(***************************************************************************)
\* The shaders that share a fragment source fail together: the mask set-up,
\* the unmasked, the masked and the inverted masked shaders.
FailingChoices ==
    { {},
      { ShaderNames_SetupMask },
      { ShaderNames_NormalPremultipliedAlpha, ShaderNames_AddPremultipliedAlpha,
        ShaderNames_MultPremultipliedAlpha },
      { ShaderNames_NormalMaskedPremultipliedAlpha,
        ShaderNames_AddMaskedPremultipliedAlpha,
        ShaderNames_MultMaskedPremultipliedAlpha },
      { ShaderNames_NomralMaskedInvertedPremultipliedAlpha,
        ShaderNames_AddMaskedPremultipliedAlphaInverted,
        ShaderNames_MultMaskedPremultipliedAlphaInverted } }

CacheContexts ==
    { GLContext(failing, strict) : failing \in FailingChoices, strict \in BOOLEAN }

StartUpCache == \E gl \in CacheContexts : StartUpWith(gl)

\* doDrawModel while the shaders have not been released
DrawCacheFrame ==
    /\ call.op # "deleteInstance"
    /\ DrawFullFrame

\* CubismShader_WebGL.deleteInstance() (doStaticRelease) at teardown
DeleteInstanceCall ==
    /\ phase = "ready"
    /\ call.op = "deleteInstance" => call.nth < MaxReleases
    /\ renderer' = DeleteInstance(renderer)
    /\ call' = [ op  |-> "deleteInstance",
                 nth |-> IF call.op = "deleteInstance" THEN call.nth + 1 ELSE 1 ]
    /\ UNCHANGED << model, frame, phase >>

NextCache ==
    \/ Initialize
    \/ StartUpCache
    \/ DrawCacheFrame
    \/ EndDraw
    \/ DeleteInstanceCall

SpecCache == Init /\ [][NextCache]_vars

(***************************************************************************)
(* What a call of doDrawModel has issued                                   *)
(***************************************************************************)
IsScreenPassDraw(e) ==
    e.op = "drawElements" /\ e.arg.caller = "doDrawModel"

IsMaskPassDraw(e) ==
    e.op = "drawElements" /\ e.arg.caller = "setupClippingContext"

\* the drawables the screen pass of the current call has drawn, in order
ScreenDrawn ==
    LET draws == SelectSeq(renderer.log, IsScreenPassDraw)
    IN  [k \in 1..Len(draws) |-> draws[k].arg.drawable]

VisibleDrawables ==
    { d \in Drawables(model) : frame.isVisible[d + 1] }

\* d comes before e in a stable sort by render order
StableBefore(d, e) ==
    \/ frame.renderOrder[d + 1] < frame.renderOrder[e + 1]
    \/ frame.renderOrder[d + 1] = frame.renderOrder[e + 1] /\ d < e

\* the visible drawables, stably sorted by render order
StableSortedVisible ==
    [ k \in 1..Cardinality(VisibleDrawables) |->
        CHOOSE d \in VisibleDrawables :
            Cardinality({ e \in VisibleDrawables : StableBefore(e, d) }) = k - 1 ]

IsPrefix(s, t) ==
    Len(s) <= Len(t) /\ \A k \in 1..Len(s) : s[k] = t[k]

\* the render orders of the frame are 0..drawableCount-1, each once
IsPermutation(renderOrder) ==
    { renderOrder[i] : i \in 1..Len(renderOrder) } = 0..(Len(renderOrder) - 1)

IdSet(ids, count) ==
    { ids[k] : k \in 1..count }

HasNoRepeat(ids, count) ==
    Cardinality(IdSet(ids, count)) = count

GroupIdSet(cc) ==
    IdSet(cc.clippingIdList, cc.clippingIdCount)

HasNoValidVertex(cc) ==
    \A k \in 1..Len(cc.clippedDrawableIndexList) :
        frame.vertices[cc.clippedDrawableIndexList[k] + 1] = << >>

\* C3: in every frame, a group none of whose clipped drawables has a valid
\* vertex is left with an all-zero rectangle and _isUsing = false, whatever its
\* state in earlier frames, and is not counted in usingClipCount.
C3_NoVertexGroupNotInUse ==
    phase = "drawn" =>
        \A i \in 1..Len(renderer.forMask) :
            HasNoValidVertex(renderer.forMask[i]) =>
                /\ renderer.forMask[i].allClippedDrawRect = NewRect
                /\ ~renderer.forMask[i].isUsing

(***************************************************************************)
(* C4                                                                      *)
(***************************************************************************)
\* C4: in every frame in which the mask pass runs, each group in use has been
\* given a channel and a rectangle, and no group out of use has taken one of
\* the usingClipCount slots (seen in the first frame, before which no group
\* has a channel).
C4_LayoutOnlyInUseGroups ==
    phase = "drawn" /\ UsingClipCount(renderer.forMask) > 0 =>
        \A i \in 1..Len(renderer.forMask) :
            /\ renderer.forMask[i].isUsing =>
                   renderer.forMask[i].layoutChannelNo # NoChannel
            /\ renderer.currentFrameNo = 1 /\ ~renderer.forMask[i].isUsing =>
                   renderer.forMask[i].layoutChannelNo = NoChannel

(***************************************************************************)
(* C5                                                                      *)
(***************************************************************************)
\* C5: within one doDrawModel call no mask-pass draw is issued after a
\* screen-pass draw: every mask-pass draw precedes the first screen-pass draw.
C5_MaskDrawsBeforeScreenDraws ==
    \A a \in 1..Len(renderer.log) : \A b \in 1..Len(renderer.log) :
        IsScreenPassDraw(renderer.log[a]) /\ IsMaskPassDraw(renderer.log[b]) => b < a

\* a call that has drawn a mask and then drawables on the screen
C5_Witness ==
    /\ phase = "drawn"
    /\ ~renderer.fault
    /\ \E a \in 1..Len(renderer.log) : IsMaskPassDraw(renderer.log[a])
    /\ Len(ScreenDrawn) >= 2

(***************************************************************************)
(* C6, C7, C8: the contexts after a call of setupLayoutBounds on a manager *)
(* none of whose contexts had a channel                                    *)
(***************************************************************************)
\* the (1-based) positions of the contexts laid out in the channel
GroupsOfChannel(channelNo) ==
    { i \in 1..Len(renderer.forMask) :
        renderer.forMask[i].layoutChannelNo = channelNo }

Channels == 0..(ColorChannelCount - 1)

\* floor(n / 4), and one more for the first n mod 4 channels
ExpectedChannelCount(n, channelNo) ==
    (n \div ColorChannelCount)
      + (IF channelNo < (n % ColorChannelCount) THEN 1 ELSE 0)

ChannelCountsAsStated ==
    /\ \A channelNo \in Channels :
           Cardinality(GroupsOfChannel(channelNo))
             = ExpectedChannelCount(call.usingClipCount, channelNo)
    /\ Cardinality(UNION { GroupsOfChannel(channelNo) : channelNo \in Channels })
         = call.usingClipCount

\* the largest count setupLayoutBounds lays out: 9 per channel
LayoutLimit == 9 * ColorChannelCount

RankInChannel(i) ==
    Cardinality({ j \in GroupsOfChannel(renderer.forMask[i].layoutChannelNo) : j < i })

\* the cell number r (0-based) of a channel that holds k contexts
ExpectedCell(k, r) ==
    IF k = 1 THEN
        [x |-> << 0, 1 >>, y |-> << 0, 1 >>, width |-> << 1, 1 >>, height |-> << 1, 1 >>]
    ELSE IF k = 2 THEN
        [x |-> IF r = 0 THEN << 0, 1 >> ELSE << 1, 2 >>, y |-> << 0, 1 >>,
         width |-> << 1, 2 >>, height |-> << 1, 1 >>]
    ELSE IF k <= 4 THEN
        [x |-> IF r % 2 = 0 THEN << 0, 1 >> ELSE << 1, 2 >>,
         y |-> IF r < 2 THEN << 0, 1 >> ELSE << 1, 2 >>,
         width |-> << 1, 2 >>, height |-> << 1, 2 >>]
    ELSE
        [x |-> Rat(r % 3, 3), y |-> Rat(r \div 3, 3),
         width |-> << 1, 3 >>, height |-> << 1, 3 >>]

\* C7: within a channel that receives k groups the rectangles are given in
\* list order: k = 1 the unit square, k = 2 the two halves side by side, k = 3..4
\* the cells of a 2x2 grid row by row, k = 5..9 the cells of a 3x3 grid row by
\* row; the i-th group of the channel gets the i-th cell.
C7_CellsInListOrder ==
    call.op = "setupLayoutBounds" =>
        \A i \in 1..Len(renderer.forMask) :
            renderer.forMask[i].layoutChannelNo # NoChannel =>
                renderer.forMask[i].layoutBounds
                  = ExpectedCell(
                      Cardinality(GroupsOfChannel(renderer.forMask[i].layoutChannelNo)),
                      RankInChannel(i))

\* a channel of 4 contexts and a channel of 5: the third cell of the 2x2 grid
\* and the centre cell of the 3x3 grid are in use
C7_Witness ==
    /\ call.op = "setupLayoutBounds"
    /\ \E i \in 1..Len(renderer.forMask) :
         /\ Cardinality(GroupsOfChannel(renderer.forMask[i].layoutChannelNo)) = 4
         /\ RankInChannel(i) = 2
         /\ renderer.forMask[i].layoutBounds
              = [x |-> << 0, 1 >>, y |-> << 1, 2 >>,
                 width |-> << 1, 2 >>, height |-> << 1, 2 >>]
    /\ \E i \in 1..Len(renderer.forMask) :
         /\ Cardinality(GroupsOfChannel(renderer.forMask[i].layoutChannelNo)) = 5
         /\ renderer.forMask[i].layoutBounds
              = [x |-> << 1, 3 >>, y |-> << 1, 3 >>,
                 width |-> << 1, 3 >>, height |-> << 1, 3 >>]

\* C8: for 1 <= n <= 4 the i-th group (of the list, counted from 0) receives
\* channel i and the whole unit square, and no two groups share a channel.
C8_OneGroupPerChannel ==
    call.op = "setupLayoutBounds" /\ call.usingClipCount \in 1..4 =>
        /\ \A i \in 1..call.usingClipCount :
               /\ renderer.forMask[i].layoutChannelNo = i - 1
               /\ renderer.forMask[i].layoutBounds
                    = [x |-> << 0, 1 >>, y |-> << 0, 1 >>,
                       width |-> << 1, 1 >>, height |-> << 1, 1 >>]
        /\ \A channelNo \in Channels : Cardinality(GroupsOfChannel(channelNo)) <= 1

\* four groups on a manager of more than four: one per channel
C8_Witness ==
    /\ call.op = "setupLayoutBounds"
    /\ call.usingClipCount = 4
    /\ Len(renderer.forMask) > 4
    /\ renderer.forMask[4].layoutChannelNo = 3
    /\ renderer.forMask[5].layoutChannelNo = NoChannel

(***************************************************************************)
(* C9, C10: what setupShaderProgram selects, in a direct call and in every *)
(* draw of a frame                                                         *)
(***************************************************************************)
\* the shader variant the claim gives for the attachments and the flags
ExpectedShader(hasMaskContext, hasDrawContext, colorBlendMode, invertedMask) ==
    IF hasMaskContext THEN ShaderNames_SetupMask
    ELSE IF ~hasDrawContext THEN
        CASE colorBlendMode = "Normal" -> ShaderNames_NormalPremultipliedAlpha
          [] colorBlendMode = "Additive" -> ShaderNames_AddPremultipliedAlpha
          [] colorBlendMode = "Multiplicative" -> ShaderNames_MultPremultipliedAlpha
    ELSE IF ~invertedMask THEN
        CASE colorBlendMode = "Normal" -> ShaderNames_NormalMaskedPremultipliedAlpha
          [] colorBlendMode = "Additive" -> ShaderNames_AddMaskedPremultipliedAlpha
          [] colorBlendMode = "Multiplicative" -> ShaderNames_MultMaskedPremultipliedAlpha
    ELSE
        CASE colorBlendMode = "Normal" ->
               ShaderNames_NomralMaskedInvertedPremultipliedAlpha
          [] colorBlendMode = "Additive" ->
               ShaderNames_AddMaskedPremultipliedAlphaInverted
          [] colorBlendMode = "Multiplicative" ->
               ShaderNames_MultMaskedPremultipliedAlphaInverted

\* the blend function the claim gives for the pass and the blend mode
ExpectedBlend(hasMaskContext, colorBlendMode) ==
    IF hasMaskContext THEN
        << "ZERO", "ONE_MINUS_SRC_COLOR", "ZERO", "ONE_MINUS_SRC_ALPHA" >>
    ELSE IF colorBlendMode = "Normal" THEN
        << "ONE", "ONE_MINUS_SRC_ALPHA", "ONE", "ONE_MINUS_SRC_ALPHA" >>
    ELSE IF colorBlendMode = "Additive" THEN
        << "ONE", "ONE", "ZERO", "ONE" >>
    ELSE
        << "DST_COLOR", "ONE_MINUS_SRC_ALPHA", "ZERO", "ONE" >>

DrawsOfCall ==
    { k \in 1..Len(renderer.log) : renderer.log[k].op = "drawElements" }

\* C9: the shader variant is setup-mask whenever a mask-generation context is
\* attached; otherwise that of the blend mode, unmasked without a draw context
\* (whatever the inversion flag), masked with a draw context and no inversion,
\* masked-inverted with a draw context and inversion.
C9_ShaderVariant ==
    /\ call.op = "setupShaderProgram" =>
           call.result.shaderSet
             = ExpectedShader(call.bufMask # NoContext, call.bufDraw # NoContext,
                              call.colorBlendMode, call.invertedMask)
    /\ \A k \in DrawsOfCall :
           renderer.log[k].arg.shaderSet
             = ExpectedShader(renderer.log[k].arg.maskContext # NoContext,
                              renderer.log[k].arg.drawContext # NoContext,
                              renderer.log[k].arg.colorBlendMode,
                              renderer.log[k].arg.invertedMask)

\* an inverted multiplicative draw with a draw context attached
C9_Witness ==
    /\ call.op = "setupShaderProgram"
    /\ call.bufMask = NoContext
    /\ call.bufDraw # NoContext
    /\ call.invertedMask
    /\ call.colorBlendMode = "Multiplicative"
    /\ call.result.shaderSet = ShaderNames_MultMaskedPremultipliedAlphaInverted

\* C10: the blend function depends on the pass and the blend mode only: that of
\* mask generation when a mask-generation context is attached, otherwise that
\* of the normal, additive or multiplicative mode, masked or inverted or not.
C10_BlendFunction ==
    /\ call.op = "setupShaderProgram" =>
           call.result.blend = ExpectedBlend(call.bufMask # NoContext,
                                             call.colorBlendMode)
    /\ \A k \in DrawsOfCall :
           renderer.log[k].arg.blend
             = ExpectedBlend(renderer.log[k].arg.maskContext # NoContext,
                             renderer.log[k].arg.colorBlendMode)

\* a masked, inverted additive draw keeps the additive blend function
C10_Witness ==
    /\ call.op = "setupShaderProgram"
    /\ call.bufMask = NoContext
    /\ call.bufDraw # NoContext
    /\ call.invertedMask
    /\ call.colorBlendMode = "Additive"
    /\ call.result.blend = << "ONE", "ONE", "ZERO", "ONE" >>


(***************************************************************************)
(* C11: the attachments of the renderer between draws                      *)
(***************************************************************************)
\* the ids of the drawables context c uses as its masks
MaskIdsOfContext(c) ==
    { renderer.forMask[c].clippingIdList[k] :
        k \in 1..renderer.forMask[c].clippingIdCount }

\* the draw was issued with the contexts of its own drawable attached, and
\* with no other
DrawnWithOwnContexts(e) ==
    IF e.arg.caller = "doDrawModel"
    THEN /\ e.arg.maskContext = NoContext
         /\ e.arg.drawContext = ContextForDraw(renderer, e.arg.drawable)
    ELSE /\ e.arg.drawContext = NoContext
         /\ e.arg.maskContext # NoContext
         /\ e.arg.drawable \in MaskIdsOfContext(e.arg.maskContext)

\* C11: whenever no drawMesh is running (between two draws, which is where
\* a call of doDrawModel has ended) the draw context, the mask context and
\* the program are all cleared, and every draw was issued with the contexts
\* of its own drawable and with no context left by an earlier draw.
C11_AttachmentsClearedBetweenDraws ==
    /\ phase \in {"ready", "drawn"} =>
         /\ renderer.bufDraw = NoContext
         /\ renderer.bufMask = NoContext
         /\ renderer.program = NoHandle
    /\ \A k \in 1..Len(renderer.log) :
         renderer.log[k].op = "drawElements" => DrawnWithOwnContexts(renderer.log[k])

\* a mask is drawn while the draw context of an earlier call is attached
C11_StaleDrawContext ==
    \E k \in 1..Len(renderer.log) :
        /\ IsMaskPassDraw(renderer.log[k])
        /\ renderer.log[k].arg.drawContext # NoContext


(***************************************************************************)
(* C12: the mask buffer resized                                            *)
(***************************************************************************)
\* the current call has run its mask pass to the end
MaskPassCompleted ==
    \E k \in 1..Len(renderer.log) :
        renderer.log[k].op = "viewport" /\ renderer.log[k].arg = AppViewport

\* the current call has created a render target of size x size and has
\* drawn its masks into it
RenderTargetCreated(size) ==
    /\ \E k \in 1..Len(renderer.log) :
         /\ renderer.log[k].op = "texImage2D"
         /\ renderer.log[k].arg.width = size
         /\ renderer.log[k].arg.height = size
    /\ \E k \in 1..Len(renderer.log) :
         /\ renderer.log[k].op = "createFramebuffer"
         /\ renderer.log[k].arg = renderer.maskTexture.texture
    /\ \A k \in 1..Len(renderer.log) :
         IsMaskPassDraw(renderer.log[k]) =>
             renderer.log[k].arg.framebuffer = renderer.maskTexture.texture

\* C12: after setClippingMaskBufferSize(size) on the started-up, initialized
\* renderer the earlier render target is deleted and the manager is a new one
\* with the lists of the model and no render target; the first doDrawModel
\* after it that has a group in use completes its mask pass on a newly created
\* render target of size x size.
C12_ResizeRecreatesRenderTarget ==
    call.op = "setClippingMaskBufferSize" =>
        /\ (phase = "ready" /\ renderer.currentFrameNo = 0) =>
             /\ ~renderer.fault
             /\ call.old # NoHandle => call.old \in renderer.deleted
             /\ renderer.clippingMaskBufferSize = call.size
             /\ renderer.maskTexture.texture = NoHandle
             /\ [forMask |-> renderer.forMask, forDraw |-> renderer.forDraw]
                  = ManagerInitialize(NewManagerLists, model.drawableCount,
                                      model.masks, model.maskCounts)
        /\ ( /\ phase = "drawn"
             /\ renderer.currentFrameNo = 1
             /\ UsingClipCount(renderer.forMask) > 0 ) =>
             /\ ~renderer.fault
             /\ MaskPassCompleted
             /\ RenderTargetCreated(call.size)

(***************************************************************************)
(* C16: the renderer released twice                                        *)
(***************************************************************************)
IsDelete(e) ==
    e.op \in {"deleteFramebuffer", "deleteTexture", "deleteBuffer"}

\* C16: a second release() raises no fault and issues no delete call for a
\* framebuffer, texture or buffer that the first release has deleted.
C16_SecondReleaseDeletesNothing ==
    (call.op = "release" /\ call.nth >= 2) =>
        /\ ~renderer.fault
        /\ \A k \in 1..Len(renderer.log) :
             IsDelete(renderer.log[k]) => renderer.log[k].arg \notin call.first


(***************************************************************************)
(* C13: the render texture of one manager over its frames                  *)
(***************************************************************************)
CountOf(log, op) ==
    Cardinality({ k \in 1..Len(log) : log[k].op = op })

\* C13: every call of doDrawModel adds exactly 1 to the frame number of the
\* manager.  The texture and framebuffer pair is created by the first call
\* that has a group in use and by no other: a call that finds the pair keeps
\* it, creates nothing and binds the same framebuffer, and a call without a
\* group in use creates nothing.  Every call that obtains the pair stamps it
\* with the frame number of that call.
C13_RenderTextureCreatedOnce ==
    [][ (phase = "ready" /\ phase' = "drawn") =>
          LET inUse   == UsingClipCount(renderer'.forMask) > 0
              before  == renderer.maskTexture
              after   == renderer'.maskTexture
              created == CountOf(renderer'.log, "createFramebuffer")
          IN  /\ renderer'.currentFrameNo = renderer.currentFrameNo + 1
              /\ CountOf(renderer'.log, "createTexture") = created
              /\ before.texture # NoHandle =>
                   /\ created = 0
                   /\ after.texture = before.texture
              /\ (before.texture = NoHandle /\ inUse) =>
                   /\ created = 1
                   /\ after.texture # NoHandle
                   /\ \E k \in 1..Len(renderer'.log) :
                        /\ renderer'.log[k].op = "createFramebuffer"
                        /\ renderer'.log[k].arg = after.texture
              /\ ~inUse => created = 0 /\ after = before
              /\ inUse =>
                   /\ after.frameNo = renderer'.currentFrameNo
                   /\ \E k \in 1..Len(renderer'.log) :
                        /\ renderer'.log[k].op = "bindFramebuffer"
                        /\ renderer'.log[k].arg = after.texture
      ]_vars

\* the third frame of a manager reuses the pair an earlier frame has created
C13_Witness ==
    /\ phase = "drawn"
    /\ renderer.currentFrameNo = 3
    /\ renderer.maskTexture.texture # NoHandle
    /\ renderer.maskTexture.frameNo = 3
    /\ CountOf(renderer.log, "createFramebuffer") = 0
    /\ \E k \in 1..Len(renderer.log) :
         /\ IsMaskPassDraw(renderer.log[k])
         /\ renderer.log[k].arg.framebuffer = renderer.maskTexture.texture


(***************************************************************************)
(* C14: a shader that fails to build                                       *)
(***************************************************************************)
\* the shader the screen pass selects for drawable d
ShaderOfDrawable(d) ==
    ExpectedShader(FALSE, ContextForDraw(renderer, d) # NoContext,
                   model.blendMode[d + 1], model.invertedMask[d + 1])

\* C14: in a context that fails to build some shaders, the call that
\* generates the shaders logs every failure, 0 is stored as the program of
\* every shader that failed, no drawElements is issued for a draw that
\* selects such a shader, and the other draws of the frame are issued.
C14_FailedShaderSkipsItsDraws ==
    (phase = "drawn" /\ renderer.gl.failing # {}) =>
        /\ renderer.currentFrameNo = 1 =>
             \A name \in renderer.gl.failing :
                 \E k \in 1..Len(renderer.log) :
                     /\ renderer.log[k] = LogError("shader compile error", name)
        /\ renderer.s_instance.shaderSets # << >>
        /\ \A name \in renderer.gl.failing :
               renderer.s_instance.shaderSets[name + 1] = NoHandle
        /\ \A k \in 1..Len(renderer.log) :
               renderer.log[k].op = "drawElements" =>
                   renderer.log[k].arg.shaderSet \notin renderer.gl.failing
        /\ \A d \in Drawables(model) :
               ShaderOfDrawable(d) \notin renderer.gl.failing =>
                   \E k \in 1..Len(ScreenDrawn) : ScreenDrawn[k] = d

(***************************************************************************)
(* C15: the shaders released twice                                         *)
(***************************************************************************)
\* C15: a call of deleteInstance that follows another one raises no fault,
\* deletes no program and changes nothing.
C15_SecondDeleteInstanceIsNoOp ==
    [][ (call.op = "deleteInstance" /\ call'.op = "deleteInstance"
           /\ call'.nth = call.nth + 1) =>
          /\ ~renderer'.fault
          /\ CountOf(renderer'.log, "deleteProgram") = 0
          /\ [renderer' EXCEPT !.log = << >>, !.fault = FALSE]
               = [renderer EXCEPT !.log = << >>, !.fault = FALSE]
      ]_vars


(***************************************************************************)
(* C17: more groups in use than the layout supports                        *)
(***************************************************************************)
InUseWithoutSlot ==
    { c \in 1..Len(renderer.forMask) :
        /\ renderer.forMask[c].isUsing
        /\ renderer.forMask[c].layoutChannelNo = NoChannel }

\* C17: in a frame with more than 36 groups in use setupLayoutBounds logs an
\* error and does not throw, exactly the groups beyond the capacity of 36
\* are left without a layout slot, and the mask pass and the screen pass of
\* the frame run to their end.
C17_ExcessGroupsOnlyLoseSlot ==
    (phase = "drawn" /\ UsingClipCount(renderer.forMask) > LayoutLimit) =>
        /\ \E k \in 1..Len(renderer.log) :
             /\ renderer.log[k].op = "CubismLogError"
             /\ renderer.log[k].arg.message = "not supported mask count"
        /\ Cardinality(InUseWithoutSlot)
             = UsingClipCount(renderer.forMask) - LayoutLimit
        /\ ~renderer.fault
        /\ MaskPassCompleted
        /\ Len(ScreenDrawn) = model.drawableCount


(***************************************************************************)
(* C18: colours that are not premultiplied                                 *)
(***************************************************************************)
PremultipliedError == LogError("NoPremultipliedAlpha is not allowed", 0)

\* C18: a call of setupShaderProgram with isPremultipliedAlpha = false logs
\* an error and selects the shader, the blend function and the context as
\* for premultiplied colours, and throws only where the context has no
\* channel to read, as it does for them; a renderer that draws such colours logs the error before
\* every draw and issues every draw of the frame with the shader and the
\* blend function of its drawable.
C18_NonPremultipliedWarnsAndDraws ==
    /\ (call.op = "setupShaderProgram" /\ ~call.isPremultipliedAlpha) =>
         LET context == IF call.bufMask # NoContext THEN call.bufMask
                        ELSE call.bufDraw
         IN  /\ call.result.logError
             /\ call.result.shaderSet
                  = ExpectedShader(call.bufMask # NoContext, call.bufDraw # NoContext,
                                   call.colorBlendMode, call.invertedMask)
             /\ call.result.blend
                  = ExpectedBlend(call.bufMask # NoContext, call.colorBlendMode)
             /\ call.result.context = context
             /\ call.result.fault
                  <=> /\ context # NoContext
                      /\ call.result.channelFlag = << >>
    /\ (phase = "drawn" /\ ~renderer.isPremultipliedAlpha) =>
         /\ ~renderer.fault
         /\ Len(ScreenDrawn) = model.drawableCount
         /\ \A k \in 1..Len(renderer.log) :
              renderer.log[k].op = "drawElements" =>
                  /\ k > 1
                  /\ renderer.log[k - 1] = PremultipliedError
                  /\ renderer.log[k].arg.shaderSet
                       = ExpectedShader(renderer.log[k].arg.maskContext # NoContext,
                                        renderer.log[k].arg.drawContext # NoContext,
                                        renderer.log[k].arg.colorBlendMode,
                                        renderer.log[k].arg.invertedMask)
                  /\ renderer.log[k].arg.blend
                       = ExpectedBlend(renderer.log[k].arg.maskContext # NoContext,
                                       renderer.log[k].arg.colorBlendMode)

\* a frame with a mask and a masked drawable drawn from colours that are not
\* premultiplied
C18_Witness ==
    /\ phase = "drawn"
    /\ ~renderer.isPremultipliedAlpha
    /\ model = ModelTwoGroups
    /\ CountOf(renderer.log, "CubismLogError") = 5
    /\ \E k \in 1..Len(renderer.log) : IsMaskPassDraw(renderer.log[k])
    /\ \E k \in 1..Len(renderer.log) :
         /\ IsScreenPassDraw(renderer.log[k])
         /\ renderer.log[k].arg.drawContext # NoContext
         /\ renderer.log[k].arg.invertedMask


(***************************************************************************)
(* C19: the lists initialize builds                                        *)
(***************************************************************************)
\* CubismClippingManager_WebGL.initialize has run: the renderer calls it on
\* the manager it creates for a model that uses masks
ManagerInitialized == renderer.manager > 0

\* how many times drawable d is in the clipped list of context c
TimesClippedBy(c, d) ==
    Cardinality({ k \in 1..Len(renderer.forMask[c].clippedDrawableIndexList) :
                    renderer.forMask[c].clippedDrawableIndexList[k] = d })

\* the per-drawable list has one entry per drawable, null for a drawable
\* without masks and a context for every other, and a drawable with masks is
\* once in the clipped list of the context it got and in no other
RegisteredOnce ==
    /\ Len(renderer.forDraw) = model.drawableCount
    /\ \A d \in Drawables(model) :
         IF model.maskCounts[d + 1] <= 0
         THEN /\ renderer.forDraw[d + 1] = NoContext
              /\ \A c \in 1..Len(renderer.forMask) : TimesClippedBy(c, d) = 0
         ELSE /\ renderer.forDraw[d + 1] \in 1..Len(renderer.forMask)
              /\ \A c \in 1..Len(renderer.forMask) :
                   TimesClippedBy(c, d) = IF c = renderer.forDraw[d + 1] THEN 1 ELSE 0

MaxVertices == 2

BoundsPoints == { <<x, y>> : x \in {-2, -1, 1}, y \in {-1, 1} }

RECURSIVE VertexLists(_)
VertexLists(n) ==
    IF n = 0 THEN { << >> }
    ELSE VertexLists(n - 1)
         \cup { Append(l, p) : l \in { v \in VertexLists(n - 1) : Len(v) = n - 1 },
                               p \in BoundsPoints }

InitBounds ==
    /\ model \in { ModelAB, ModelSharedGroup }
    /\ frame = NoFrame
    /\ renderer = NewRenderer
    /\ phase = "constructed"
    /\ call = NoCall

\* manager.calcClippedDrawTotalBounds(model, clippingContext) on a model whose
\* unclipped drawables have no vertex
CalcClippedDrawTotalBoundsCall ==
    /\ phase = "ready"
    /\ call = NoCall
    /\ \E clipIndex \in 1..Len(renderer.forMask) :
       \E clipped \in [ { i \in 1..model.drawableCount : model.masks[i] # << >> }
                        -> VertexLists(MaxVertices) ] :
         LET vertices == [ i \in 1..model.drawableCount |->
                             IF model.masks[i] # << >> THEN clipped[i] ELSE << >> ]
             cc == CHOOSE c \in { CalcClippedDrawTotalBounds(v, renderer.forMask[clipIndex])
                                  : v \in {vertices} } : TRUE
         IN  /\ renderer' = [renderer EXCEPT !.forMask[clipIndex] = cc]
             /\ call' = [ op        |-> "calcClippedDrawTotalBounds",
                          vertices  |-> vertices,
                          clipIndex |-> clipIndex,
                          result    |-> cc ]
    /\ UNCHANGED << model, frame, phase >>

NextBounds ==
    \/ Initialize
    \/ StartUp
    \/ CalcClippedDrawTotalBoundsCall

SpecBounds == InitBounds /\ [][NextBounds]_vars

\* the vertex positions of the drawables a context clips
ClippedVertexPositions(vertices, cc) ==
    UNION { { vertices[cc.clippedDrawableIndexList[k] + 1][pi]
              : pi \in 1..Len(vertices[cc.clippedDrawableIndexList[k] + 1]) }
            : k \in 1..Len(cc.clippedDrawableIndexList) }

UnionBoundingBox(P) ==
    LET minX == CHOOSE a \in { p[1] : p \in P } : \A p \in P : a <= p[1]
        maxX == CHOOSE a \in { p[1] : p \in P } : \A p \in P : a >= p[1]
        minY == CHOOSE a \in { p[2] : p \in P } : \A p \in P : a <= p[2]
        maxY == CHOOSE a \in { p[2] : p \in P } : \A p \in P : a >= p[2]
    IN  [ x |-> minX, y |-> minY, width |-> maxX - minX, height |-> maxY - minY ]

\* C21: for a group with at least one clipped drawable that has vertices,
\* calcClippedDrawTotalBounds sets the group's rectangle to the exact union
\* bounding box of all vertex positions of its clipped drawables, whatever the
\* sign of the coordinates, and marks the group in use.
C21_ExactUnionBoundingBox ==
    call.op = "calcClippedDrawTotalBounds" =>
        LET P == ClippedVertexPositions(call.vertices, call.result)
        IN  P # {} =>
              /\ call.result.isUsing
              /\ call.result.allClippedDrawRect = UnionBoundingBox(P)

\* the case of C21 with every coordinate of the group negative
C21_AllNegativeCase ==
    /\ call.op = "calcClippedDrawTotalBounds"
    /\ ClippedVertexPositions(call.vertices, call.result) # {}
    /\ \A p \in ClippedVertexPositions(call.vertices, call.result) :
         p[1] < 0 /\ p[2] < 0

\* the image of the point (x, y) under a matrix
MatrixApply(matrix, x, y) ==
    << RatAdd(RatMul(matrix.sx, x), matrix.tx),
       RatAdd(RatMul(matrix.sy, y), matrix.ty) >>

\* a coordinate of [0,1] in [-1,1]
Remap(v) ==
    RatAdd(RatMul(Rat(2, 1), v), Rat(-1, 1))

\* the call that has ended ran the mask pass to its end
MaskPassRan ==
    /\ phase = "drawn"
    /\ ~renderer.fault
    /\ \E k \in 1..Len(renderer.log) : renderer.log[k].op = "clear"

HasExtent(cc) ==
    cc.allClippedDrawRect.width > 0 /\ cc.allClippedDrawRect.height > 0

MaskMatrixFits(cc) ==
    LET rect == RatRect(cc.allClippedDrawRect)
        marginX == RatMul(rect.width, MARGIN)
        marginY == RatMul(rect.height, MARGIN)
        left   == RatAdd(rect.x, RatNeg(marginX))
        right  == RatAdd(RatAdd(rect.x, rect.width), marginX)
        top    == RatAdd(rect.y, RatNeg(marginY))
        bottom == RatAdd(RatAdd(rect.y, rect.height), marginY)
        layout == cc.layoutBounds
        layoutRight  == RatAdd(layout.x, layout.width)
        layoutBottom == RatAdd(layout.y, layout.height)
        m == cc.matrixForMask
    IN  /\ MatrixApply(m, left, top) = << Remap(layout.x), Remap(layout.y) >>
        /\ MatrixApply(m, right, top) = << Remap(layoutRight), Remap(layout.y) >>
        /\ MatrixApply(m, left, bottom) = << Remap(layout.x), Remap(layoutBottom) >>
        /\ MatrixApply(m, right, bottom) = << Remap(layoutRight), Remap(layoutBottom) >>
        /\ m.sx = RatMul(Rat(2, 1), RatDiv(layout.width, RatAdd(right, RatNeg(left))))
        /\ m.sy = RatMul(Rat(2, 1), RatDiv(layout.height, RatAdd(bottom, RatNeg(top))))
        /\ cc.matrixForDraw.sx = RatDiv(layout.width, RatAdd(right, RatNeg(left)))
        /\ cc.matrixForDraw.sy = RatDiv(layout.height, RatAdd(bottom, RatNeg(top)))

\* C22: after a mask pass, for every group with a rectangle of positive width
\* and height and an assigned layout rectangle, matrixForMask maps the four
\* corners of the rectangle grown by 5% of its width and height on each side
\* onto the four corners of the layout rectangle remapped from [0,1] to [-1,1];
\* the scale factors of the two axes are layoutWidth / expandedWidth and
\* layoutHeight / expandedHeight (doubled by the remap in matrixForMask).
C22_MaskMatrixMapsExpandedRectOntoLayout ==
    MaskPassRan =>
        \A c \in 1..Len(renderer.forMask) :
            (HasExtent(renderer.forMask[c])
             /\ renderer.forMask[c].layoutChannelNo # NoChannel)
                => MaskMatrixFits(renderer.forMask[c])

\* a frame in which a group with a rectangle lies in a ninth of its channel
C22_Witness ==
    /\ MaskPassRan
    /\ \E c \in 1..Len(renderer.forMask) :
         /\ HasExtent(renderer.forMask[c])
         /\ renderer.forMask[c].layoutChannelNo # NoChannel
         /\ renderer.forMask[c].layoutBounds.width = Rat(1, 3)
         /\ renderer.forMask[c].layoutBounds.x = Rat(2, 3)

UnitSquare ==
    [x |-> Rat(0, 1), y |-> Rat(0, 1), width |-> Rat(1, 1), height |-> Rat(1, 1)]

MaskPassDraws == SelectSeq(renderer.log, IsMaskPassDraw)

ScreenPassDraws == SelectSeq(renderer.log, IsScreenPassDraw)

\* the drawables in ascending render order, for orders that are a permutation
RECURSIVE InRenderOrder(_, _)
InRenderOrder(renderOrder, k) ==
    IF k >= Len(renderOrder) THEN << >>
    ELSE << (CHOOSE d \in 0..(Len(renderOrder) - 1) : renderOrder[d + 1] = k) >>
         \o InRenderOrder(renderOrder, k + 1)

\* a frame of ModelAB in which A (drawable 0) and B (drawable 1) are visible
\* and the vertices of B have changed
ABFrameDrawn ==
    /\ model = ModelAB
    /\ phase = "drawn"
    /\ frame.isVisible = << TRUE, TRUE >>
    /\ frame.didChange[2]

\* what the scenario expects of such a frame
ABFrameAsExpected ==
    /\ ~renderer.fault
    /\ Len(renderer.forMask) = 1
    /\ renderer.forMask[1].layoutChannelNo = 0
    /\ renderer.forMask[1].layoutBounds = UnitSquare
    /\ Len(MaskPassDraws) = 1
    /\ MaskPassDraws[1].arg.drawable = 1
    /\ MaskPassDraws[1].arg.shaderSet = ShaderNames_SetupMask
    /\ Len(ScreenPassDraws) = 2
    /\ ScreenDrawn = InRenderOrder(frame.renderOrder, 0)
    /\ \A k \in 1..Len(ScreenPassDraws) :
         LET e == ScreenPassDraws[k].arg
         IN  IF e.drawable = 1
             THEN /\ e.shaderSet = ShaderNames_NormalPremultipliedAlpha
                  /\ e.drawContext = NoContext
                  /\ e.clipMatrix = << >>
             ELSE /\ e.shaderSet = ShaderNames_NormalMaskedPremultipliedAlpha
                  /\ e.drawContext = 1
                  /\ e.clipMatrix = << renderer.forMask[1].matrixForDraw >>
                  /\ e.channelFlag = << 1, 0, 0, 0 >>

\* C23: for the model in which A is masked by B and B is unmasked, initialize
\* creates exactly one group, and every frame in which both are visible and
\* the vertices of B have changed assigns the group channel 0 (R) and the unit
\* square, draws B once with the setup-mask shader in the mask pass, and in the
\* screen pass draws B unmasked and A masked with the group's matrixForDraw
\* and channel R, in render order.
C23_EndToEndMaskedPair ==
    /\ (model = ModelAB /\ phase # "constructed") => Len(renderer.forMask) = 1
    /\ ABFrameDrawn => ABFrameAsExpected

\* the frames of C23 in which the group of A is in use
C23_EndToEndWhenGroupInUse ==
    /\ (model = ModelAB /\ phase # "constructed") => Len(renderer.forMask) = 1
    /\ (ABFrameDrawn /\ renderer.forMask[1].isUsing) => ABFrameAsExpected

C23_GroupInUseFrame ==
    ABFrameDrawn /\ renderer.forMask[1].isUsing /\ frame.renderOrder = << 1, 0 >>

\* the screen pass has drawn every visible drawable once, in ascending render
\* order, and the drawables without a group with no draw context
ScreenPassAsOrdered ==
    /\ ScreenDrawn = StableSortedVisible
    /\ \A k \in 1..Len(ScreenPassDraws) :
         ContextForDraw(renderer, ScreenPassDraws[k].arg.drawable) = NoContext
            => ScreenPassDraws[k].arg.drawContext = NoContext

\* C24: when the render orders are a permutation of 0..n-1, each screen pass
\* issues exactly one draw for every visible drawable, in ascending render
\* order, and none for a drawable that is not visible; a drawable without a
\* group is drawn with no draw context attached.
C24_OneDrawPerVisibleDrawable ==
    phase = "drawn" /\ IsPermutation(frame.renderOrder) => ScreenPassAsOrdered

\* the calls of C24 that return
C24_OneDrawPerVisibleWhenReturned ==
    phase = "drawn" /\ IsPermutation(frame.renderOrder) /\ ~renderer.fault
        => ScreenPassAsOrdered

C24_ReturnedFrame ==
    /\ phase = "drawn"
    /\ ~renderer.fault
    /\ frame.renderOrder = << 1, 2, 0 >>
    /\ frame.isVisible = << TRUE, FALSE, TRUE >>
    /\ ScreenDrawn = << 2, 0 >>

(***************************************************************************)
(* Frames drawn with textures bound, bound again or never bound            *)
(***************************************************************************)
\* the calls of bindTexture on one slot
MaxBinds == 2

\* textures the application has created, and null
AppTextures == { 101, 102 }

NoBinds ==
    [ op    |-> "bindTexture",
      bound |-> [ slot \in TextureSlots |-> NoHandle ],
      count |-> [ slot \in TextureSlots |-> 0 ] ]

InitTexture ==
    /\ model \in { ModelAB, ModelNoMask }
    /\ frame = NoFrame
    /\ renderer = NewRenderer
    /\ phase = "constructed"
    /\ call = NoBinds

\* renderer.bindTexture(modelTextureNo, glTexture) between two frames; call
\* keeps what was given last for every slot
BindTexture ==
    /\ phase \in { "initialized", "ready" }
    /\ \E modelTextureNo \in TextureSlots :
       \E glTexture \in AppTextures \cup { NoHandle } :
         /\ call.count[modelTextureNo] < MaxBinds
         /\ renderer' = RendererBindTexture(renderer, modelTextureNo, glTexture)
         /\ call' = [call EXCEPT !.bound[modelTextureNo] = glTexture,
                                 !.count[modelTextureNo] = @ + 1]
    /\ UNCHANGED << model, frame, phase >>

NextTexture ==
    \/ Initialize
    \/ StartUp
    \/ BindTexture
    \/ DrawFullFrame
    \/ EndDraw

SpecTexture == InitTexture /\ [][NextTexture]_vars

DrawElements ==
    SelectSeq(renderer.log, LAMBDA e : e.op = "drawElements")

\* C25: a draw whose texture slot has no texture bound is still issued, with
\* the null texture on texture unit 0, and the call neither fails nor skips
\* it; a draw whose slot was bound through bindTexture uses the handle bound
\* to the slot last.
C25_DrawsWithLastBoundOrNullTexture ==
    phase = "drawn" =>
        /\ ~renderer.fault
        /\ ScreenDrawn = StableSortedVisible
        /\ \A k \in 1..Len(DrawElements) :
             DrawElements[k].arg.texture0 =
                 call.bound[DrawableTextureIndices(DrawElements[k].arg.drawable)]

\* a frame with a draw from a slot never bound and a draw from a slot that
\* was bound twice, with different textures
C25_Witness ==
    /\ phase = "drawn"
    /\ call.count[0] = 0
    /\ call.count[1] = 2
    /\ renderer.currentFrameNo = 2
    /\ \E k \in 1..Len(DrawElements) :
         DrawElements[k].arg.drawable = 0 /\ DrawElements[k].arg.texture0 = NoHandle
    /\ \E k \in 1..Len(DrawElements) :
         DrawElements[k].arg.drawable = 1 /\ DrawElements[k].arg.texture0 = 102

SomeGroupInUse ==
    \E c \in 1..Len(renderer.forMask) : renderer.forMask[c].isUsing

LogPositions(op) ==
    { k \in 1..Len(renderer.log) : renderer.log[k].op = op }

MaskDrawPositions ==
    { k \in 1..Len(renderer.log) : IsMaskPassDraw(renderer.log[k]) }

\* the render target is bound at position i and cleared to 1 at a later
\* position j, nothing else is bound in between, and every mask draw follows
BoundAndClearedBeforeMaskDraws ==
    \E i, j \in 1..Len(renderer.log) :
        /\ i < j
        /\ renderer.log[i] = [ op |-> "bindFramebuffer",
                               arg |-> renderer.maskTexture.texture ]
        /\ renderer.maskTexture.texture # NoHandle
        /\ renderer.log[j] = [ op |-> "clear", arg |-> << 1, 1, 1, 1 >> ]
        /\ \A k \in LogPositions("bindFramebuffer") : ~(i < k /\ k < j)
        /\ \A k \in MaskDrawPositions :
             /\ j < k
             /\ renderer.log[k].arg.framebuffer = renderer.maskTexture.texture

\* C26: the mask pass runs in a frame if and only if a group is in use after
\* the bounds are computed; when it runs, the mask render target is bound and
\* cleared to 1 in all four channels before the first mask draw of the frame,
\* and when it does not run setupClippingContext binds no framebuffer, clears
\* nothing and sets no viewport.
C26_MaskPassIffGroupInUse ==
    phase = "drawn" =>
        /\ SomeGroupInUse <=> LogPositions("clear") # {}
        /\ SomeGroupInUse => BoundAndClearedBeforeMaskDraws
        /\ ~SomeGroupInUse =>
             /\ LogPositions("bindFramebuffer") = {}
             /\ LogPositions("clear") = {}
             /\ LogPositions("viewport") = {}
             /\ MaskDrawPositions = {}

\* a frame whose mask pass has drawn a mask
C26_Witness ==
    /\ phase = "drawn"
    /\ SomeGroupInUse
    /\ MaskDrawPositions # {}
    /\ renderer.currentFrameNo = 2

\* a frame without a mask pass on a model that has groups
C26_NoMaskPassFrame ==
    /\ phase = "drawn"
    /\ Len(renderer.forMask) > 0
    /\ ~SomeGroupInUse
    /\ LogPositions("viewport") = {}

\* the mask draws of the current call for group c and drawable d
MaskDrawsOf(c, d) ==
    { k \in MaskDrawPositions :
        /\ renderer.log[k].arg.maskContext = c
        /\ renderer.log[k].arg.drawable = d }

\* every mask source of every group is drawn once if it has changed and not
\* at all if it has not, with the group as mask context, normal blend and no
\* inversion
MaskDrawsAsFlagged ==
    /\ \A c \in 1..Len(renderer.forMask) :
       \A i \in 1..renderer.forMask[c].clippingIdCount :
         LET d == renderer.forMask[c].clippingIdList[i]
         IN  Cardinality(MaskDrawsOf(c, d)) = IF frame.didChange[d + 1] THEN 1 ELSE 0
    /\ \A k \in MaskDrawPositions :
         /\ renderer.log[k].arg.maskContext \in 1..Len(renderer.forMask)
         /\ renderer.log[k].arg.shaderSet = ShaderNames_SetupMask
         /\ renderer.log[k].arg.colorBlendMode = "Normal"
         /\ renderer.log[k].arg.invertedMask = FALSE

\* C27: in the mask pass, for each group the loop processes and each of its
\* mask sources, exactly one setup-mask draw is issued if the vertex positions
\* of that drawable have changed in this frame and none if they have not; each
\* such draw has the group as mask context, normal blend and inversion false.
C27_OneMaskDrawPerChangedSource ==
    (phase = "drawn" /\ SomeGroupInUse) => MaskDrawsAsFlagged

\* the calls of C27 that return
C27_OneMaskDrawPerChangedSourceWhenReturned ==
    (phase = "drawn" /\ SomeGroupInUse /\ ~renderer.fault) => MaskDrawsAsFlagged

C27_ReturnedFrame ==
    /\ phase = "drawn"
    /\ ~renderer.fault
    /\ Len(renderer.forMask) = 2
    /\ Cardinality(MaskDrawPositions) = 1

\* the current call samples the region of group c: a screen draw has c as
\* its draw context
SampledGroups(log) ==
    { log[k].arg.drawContext : k \in { j \in 1..Len(log) : IsScreenPassDraw(log[j]) } }
        \ { NoContext }

\* C28: when a mask source is skipped in a frame because its vertices are
\* unchanged, the mask it rendered into the render target in an earlier frame
\* is still in the region of its group when the screen pass of the frame
\* samples that region.
C28_SkippedMaskKeepsEarlierContent ==
    [][ (phase = "ready" /\ phase' = "drawn" /\ ~renderer'.fault) =>
          \A cd \in renderer.maskContent :
              (~frame'.didChange[cd[2] + 1] /\ cd[1] \in SampledGroups(renderer'.log))
                  => cd \in renderer'.maskContent ]_vars

\* a frame that samples the region of a group whose mask source was drawn in
\* an earlier frame and is skipped in this one
C28_SkippedAndSampled ==
    /\ phase = "drawn"
    /\ ~renderer.fault
    /\ renderer.currentFrameNo = 2
    /\ model = ModelAB
    /\ ~frame.didChange[2]
    /\ 1 \in SampledGroups(renderer.log)
    /\ renderer.maskContent = {}

\* C29: a group that is not in use in a frame is skipped in the mask pass of
\* that frame: its matrices are not computed again and no mask draw is issued
\* with it as mask context.
C29_UnusedGroupsSkipped ==
    [][ (phase = "ready" /\ phase' = "drawn") =>
          \A c \in 1..Len(renderer'.forMask) :
              ~renderer'.forMask[c].isUsing =>
                  /\ renderer'.forMask[c].matrixForMask = renderer.forMask[c].matrixForMask
                  /\ renderer'.forMask[c].matrixForDraw = renderer.forMask[c].matrixForDraw
                  /\ \A k \in 1..Len(renderer'.log) :
                       IsMaskPassDraw(renderer'.log[k])
                           => renderer'.log[k].arg.maskContext # c ]_vars

\* a frame whose mask pass has drawn the mask of a group that is not in use
C29_UnusedGroupDrawn ==
    /\ phase = "drawn"
    /\ \E c \in 1..Len(renderer.forMask) :
         /\ ~renderer.forMask[c].isUsing
         /\ renderer.forMask[c].matrixForMask # NewMatrix
         /\ \E k \in MaskDrawPositions : renderer.log[k].arg.maskContext = c

\* v is the RGBA vector with its only 1 at channelNo (0 = R, 1 = G, 2 = B, 3 = A)
IsOneHotAt(v, channelNo) ==
    /\ Len(v) = 4
    /\ channelNo \in 0..3
    /\ \A i \in 1..4 : v[i] = IF i = channelNo + 1 THEN 1 ELSE 0

\* C30: for every group, the channel flag bound for its mask draws and the
\* one bound for the screen draws of the drawables it clips in the same frame
\* are the same RGBA vector, with its only 1 at the channel number assigned to
\* the group; a masked draw also binds the colour buffer of the manager to
\* texture unit 1 and the matrixForDraw of the group as clip matrix.
C30_SameChannelFlagInBothPasses ==
    phase = "drawn" =>
        /\ \A k \in MaskDrawPositions :
             IsOneHotAt(renderer.log[k].arg.channelFlag,
                        renderer.forMask[renderer.log[k].arg.maskContext].layoutChannelNo)
        /\ \A k \in 1..Len(ScreenPassDraws) :
             LET e == ScreenPassDraws[k].arg
             IN  e.drawContext # NoContext =>
                   /\ IsOneHotAt(e.channelFlag,
                                 renderer.forMask[e.drawContext].layoutChannelNo)
                   /\ renderer.colorBuffer # NoHandle
                   /\ e.texture1 = << renderer.colorBuffer >>
                   /\ e.clipMatrix = << renderer.forMask[e.drawContext].matrixForDraw >>
        /\ \A k \in MaskDrawPositions : \A j \in 1..Len(ScreenPassDraws) :
             renderer.log[k].arg.maskContext = ScreenPassDraws[j].arg.drawContext
                => renderer.log[k].arg.channelFlag = ScreenPassDraws[j].arg.channelFlag

\* a frame with a mask draw and a masked screen draw of a group on channel G
C30_Witness ==
    /\ phase = "drawn"
    /\ \E k \in MaskDrawPositions : \E j \in 1..Len(ScreenPassDraws) :
         /\ renderer.log[k].arg.maskContext = ScreenPassDraws[j].arg.drawContext
         /\ renderer.log[k].arg.channelFlag = << 0, 1, 0, 0 >>
         /\ ScreenPassDraws[j].arg.channelFlag = << 0, 1, 0, 0 >>


(***************************************************************************)
(* C31: matrixForDraw and matrixForMask                                    *)
(***************************************************************************)
\* the rectangle of a context grown by its margin, as corners
ExpandedCorners(cc) ==
    LET b == BoundsOnModel(cc)
    IN  [ left |-> b.x, top |-> b.y,
          right |-> RatAdd(b.x, b.width), bottom |-> RatAdd(b.y, b.height) ]

\* points of model space at which the two matrices are compared
ProbePoints(cc) ==
    LET e == ExpandedCorners(cc)
    IN  { << e.left, e.top >>, << e.right, e.top >>, << e.left, e.bottom >>,
          << e.right, e.bottom >>, << Rat(0, 1), Rat(0, 1) >>,
          << Rat(-3, 2), Rat(5, 1) >> }

\* numbers that are equal; NaN equals nothing
SameNumber(a, b) ==
    IsFinite(a) /\ IsFinite(b) /\ a = b

DrawMatrixFits(cc) ==
    LET e == ExpandedCorners(cc)
        layout == cc.layoutBounds
        layoutRight  == RatAdd(layout.x, layout.width)
        layoutBottom == RatAdd(layout.y, layout.height)
        forMask == cc.matrixForMask
        forDraw == cc.matrixForDraw
        Maps(x, y, u, v) ==
            /\ SameNumber(MatrixApply(forDraw, x, y)[1], u)
            /\ SameNumber(MatrixApply(forDraw, x, y)[2], v)
    IN  /\ \A p \in ProbePoints(cc) :
             /\ SameNumber(MatrixApply(forMask, p[1], p[2])[1],
                           Remap(MatrixApply(forDraw, p[1], p[2])[1]))
             /\ SameNumber(MatrixApply(forMask, p[1], p[2])[2],
                           Remap(MatrixApply(forDraw, p[1], p[2])[2]))
        /\ Maps(e.left, e.top, layout.x, layout.y)
        /\ Maps(e.right, e.top, layoutRight, layout.y)
        /\ Maps(e.left, e.bottom, layout.x, layoutBottom)
        /\ Maps(e.right, e.bottom, layoutRight, layoutBottom)

\* C31: after a mask pass, for every group of the mask list (the loop
\* processes them all) matrixForMask(p) = 2 * matrixForDraw(p) - 1 on both
\* axes at every probed point p, and matrixForDraw maps the corners of the
\* rectangle grown by its margin onto the corners of the layout rectangle.
C31_DrawMatrixIsMaskMatrixWithoutRemap ==
    MaskPassRan =>
        \A c \in 1..Len(renderer.forMask) : DrawMatrixFits(renderer.forMask[c])

\* the same for the groups whose rectangle has a width and a height
C31_DrawMatrixFitsWhenRectHasExtent ==
    MaskPassRan =>
        \A c \in 1..Len(renderer.forMask) :
            HasExtent(renderer.forMask[c]) => DrawMatrixFits(renderer.forMask[c])

\* a mask pass has processed a group with extent that has a layout rectangle
C31_ExtentGroupProcessed ==
    /\ MaskPassRan
    /\ \E c \in 1..Len(renderer.forMask) :
         /\ HasExtent(renderer.forMask[c])
         /\ renderer.forMask[c].layoutChannelNo # NoChannel

\* a mask pass has processed a group whose rectangle has no width: the scale
\* is a division by zero
C31_DegenerateGroupProcessed ==
    /\ MaskPassRan
    /\ \E c \in 1..Len(renderer.forMask) :
         /\ ~HasExtent(renderer.forMask[c])
         /\ ~IsFinite(renderer.forMask[c].matrixForDraw.sx)


(***************************************************************************)
(* C32: the shaders are generated once                                     *)
(***************************************************************************)
\* every draw of the call that has ended used the program the instance holds
\* for its shader
DrawsUseCachedPrograms ==
    \A k \in 1..Len(renderer.log) :
        renderer.log[k].op = "drawElements" =>
            /\ renderer.s_instance.shaderSets # << >>
            /\ renderer.log[k].arg.program =
                   renderer.s_instance.shaderSets[renderer.log[k].arg.shaderSet + 1]

GeneratedOnce ==
    /\ renderer.s_instance.generated <= 1
    /\ (phase = "drawn" /\ DrawElements # << >>) =>
           /\ renderer.s_instance.generated = 1
           /\ DrawsUseCachedPrograms

\* C32: generateShaders runs once for an instance of CubismShader_WebGL, at
\* its first setupShaderProgram: the instance never counts a second run, and
\* every draw of every frame uses the programs the instance holds.
C32_ShadersGeneratedOnce ==
    GeneratedOnce

\* the same in a context that builds every shader, or that takes 0 as no
\* program
C32_ShadersGeneratedOnceWhenAssigned ==
    (renderer.gl.failing = {} \/ ~renderer.gl.strict) => GeneratedOnce

\* a later frame that has generated the shaders again
C32_GeneratedAgain ==
    /\ phase = "drawn"
    /\ renderer.s_instance.generated >= 2

\* a later frame that drew with the programs of an earlier one
C32_CachedProgramsReused ==
    /\ phase = "drawn"
    /\ renderer.currentFrameNo >= 2
    /\ renderer.s_instance.generated = 1
    /\ DrawElements # << >>

(***************************************************************************)
(* C33: a frame keeps the groups                                           *)
(***************************************************************************)
\* a step that is one call of doDrawModel
IsDrawStep ==
    phase = "ready" /\ phase' = "drawn"

\* what initialize has built of a group: its masks and the drawables it clips
StaticPart(cc) ==
    [ clippingIdList           |-> cc.clippingIdList,
      clippingIdCount          |-> cc.clippingIdCount,
      clippedDrawableIndexList |-> cc.clippedDrawableIndexList ]

GroupsKept ==
    /\ renderer'.manager = renderer.manager
    /\ Len(renderer'.forMask) = Len(renderer.forMask)
    /\ renderer'.forDraw = renderer.forDraw
    /\ \A c \in 1..Len(renderer.forMask) :
         StaticPart(renderer'.forMask[c]) = StaticPart(renderer.forMask[c])

\* C33: a call of doDrawModel (setupClippingContext and the screen pass)
\* leaves the manager, the number of groups of the mask list, the group of
\* every drawable, and the clipping ids and the clipped drawables of every
\* group as they were; only bounds, in-use flag, layout and matrices change.
C33_FrameKeepsGroups ==
    [][IsDrawStep => GroupsKept]_vars

\* a frame has refreshed the bounds, the flag and the layout of a group
C33_Witness ==
    /\ phase = "drawn"
    /\ \E c \in 1..Len(renderer.forMask) :
         /\ renderer.forMask[c].isUsing
         /\ renderer.forMask[c].layoutChannelNo # NoChannel
         /\ renderer.forMask[c].allClippedDrawRect # NewRect
         /\ renderer.forMask[c].clippedDrawableIndexList # << >>

(***************************************************************************)
(* The render state of the application                                     *)
(***************************************************************************)
\* the framebuffers the application draws to: one of its own and the default
\* one (null)
AppFramebuffers == { AppFramebuffer, NoHandle }

AppViewports == { AppViewport, [width |-> 2, height |-> 3] }

\* Frames of the render state specification: every drawable is visible, the
\* vertices of the clipped drawables and the changed flag of the mask
\* sources vary.
RenderStateFrames(m) ==
    { f \in MaskFrames(m) :
        /\ f.renderOrder = IdentityOrder(m)
        /\ \A d \in Drawables(m) : f.isVisible[d + 1] }

DrawRenderStateFrame == \E f \in RenderStateFrames(model) : Draw(f)

\* between two frames the application binds a framebuffer, sets a viewport and
\* hands both to the renderer with setRenderState
SetRenderState ==
    /\ phase = "ready"
    /\ \E fbo \in AppFramebuffers, viewport \in AppViewports :
         renderer' = [ RendererSetRenderState(renderer, fbo, viewport) EXCEPT
                         !.framebuffer = fbo, !.viewport = viewport ]
    /\ UNCHANGED << model, frame, phase, call >>

NextRenderState ==
    \/ Initialize
    \/ StartUp
    \/ SetRenderState
    \/ DrawRenderStateFrame
    \/ EndDraw

SpecRenderState == Init /\ [][NextRenderState]_vars

(***************************************************************************)
(* C34: the screen pass draws to the framebuffer of the application        *)
(***************************************************************************)
\* the position of the clear of the mask pass of the call, 0 when none ran
ClearPosition ==
    IF LogPositions("clear") = {} THEN 0
    ELSE CHOOSE k \in LogPositions("clear") : TRUE

\* before the screen-pass draw at position k and after the clear of the mask
\* pass, the framebuffer and the viewport of setRenderState were set again
RestoredBefore(k) ==
    /\ \E j \in (ClearPosition + 1)..(k - 1) :
         /\ renderer.log[j].op = "bindFramebuffer"
         /\ renderer.log[j].arg = renderer.s_fbo
    /\ \E j \in (ClearPosition + 1)..(k - 1) :
         /\ renderer.log[j].op = "viewport"
         /\ renderer.log[j].arg = renderer.s_viewport

ScreenDrawsOnRenderState ==
    \A k \in 1..Len(renderer.log) :
        IsScreenPassDraw(renderer.log[k]) =>
            /\ renderer.log[k].arg.framebuffer = renderer.s_fbo
            /\ renderer.log[k].arg.viewport = renderer.s_viewport
            /\ renderer.maskTexture.texture # NoHandle =>
                   renderer.log[k].arg.framebuffer # renderer.maskTexture.texture
            /\ ClearPosition > 0 => RestoredBefore(k)

NoValidVertexIn(f, cc) ==
    \A k \in 1..Len(cc.clippedDrawableIndexList) :
        f.vertices[cc.clippedDrawableIndexList[k] + 1] = << >>

InUseKept ==
    \A c \in 1..Len(renderer.forMask) :
        /\ renderer.forMask[c].isUsing => renderer'.forMask[c].isUsing
        /\ NoValidVertexIn(frame', renderer.forMask[c]) =>
               /\ renderer'.forMask[c].allClippedDrawRect =
                      renderer.forMask[c].allClippedDrawRect
               /\ renderer'.forMask[c].isUsing = renderer.forMask[c].isUsing

VisibleClipped ==
    { d \in Drawables(model) :
        frame.isVisible[d + 1] /\ ContextForDraw(renderer, d) # NoContext }

HasSlot(cc) ==
    /\ cc.layoutChannelNo \in 0..(ColorChannelCount - 1)
    /\ cc.layoutBounds.width # Rat(0, 1)
    /\ cc.layoutBounds.height # Rat(0, 1)

\* C36: in every frame, whatever is visible and whatever has vertices, the
\* group of every visible drawable that has one holds a channel in 0..3 and
\* a layout rectangle, and doDrawModel returns without an exception.
C36_DrawnGroupsHaveChannel ==
    phase = "drawn" =>
        /\ ~renderer.fault
        /\ \A d \in VisibleClipped :
             HasSlot(renderer.forMask[ContextForDraw(renderer, d)])

\* the same for the returned calls: the groups the screen pass has drawn with
C36_DrawnGroupsHaveChannelWhenReturned ==
    (phase = "drawn" /\ ~renderer.fault) =>
        \A d \in VisibleClipped :
            HasSlot(renderer.forMask[ContextForDraw(renderer, d)])

\* a frame in which no group is in use and a clipped drawable is visible
C36_NoGroupInUseFrame ==
    /\ phase = "drawn"
    /\ VisibleClipped # {}
    /\ \A c \in 1..Len(renderer.forMask) : ~renderer.forMask[c].isUsing
    /\ renderer.fault

\* a returned frame that has drawn a visible clipped drawable
C36_ReturnedFrame ==
    /\ phase = "drawn"
    /\ ~renderer.fault
    /\ VisibleClipped # {}

(***************************************************************************)
(* startUp before initialize                                               *)
(***************************************************************************)
\* CubismRenderer_WebGL.startUp(gl) on the renderer as constructed
StartUpFirst ==
    /\ phase = "constructed"
    /\ renderer' = RendererStartUp(renderer, SoundGL)
    /\ phase' = "startedUp"
    /\ UNCHANGED << model, frame, call >>

\* CubismRenderer_WebGL.initialize(model) on the started-up renderer
InitializeLate ==
    /\ phase = "startedUp"
    /\ renderer' = RendererInitialize(renderer, model)
    /\ phase' = "ready"
    /\ UNCHANGED << model, frame, call >>

NextStartOrder ==
    \/ Initialize
    \/ StartUp
    \/ StartUpFirst
    \/ InitializeLate
    \/ DrawRenderStateFrame
    \/ EndDraw

SpecStartOrder == Init /\ [][NextStartOrder]_vars

(***************************************************************************)
(* C37: the manager of the first frame has gl                              *)
(***************************************************************************)
\* C37: after startUp and initialize, in either order, the clipping manager
\* has gl, and a frame with a group in use issues the calls of its mask pass.
C37_ManagerHasGLInEitherOrder ==
    /\ phase = "ready" => renderer.managerGL
    /\ (phase = "drawn" /\ SomeGroupInUse) =>
           /\ LogPositions("viewport") # {}
           /\ LogPositions("clear") # {}

\* a frame with a group in use on a manager without gl: it has thrown at its
\* first call on gl
C37_MaskPassWithoutGL ==
    /\ phase = "drawn"
    /\ SomeGroupInUse
    /\ ~renderer.managerGL
    /\ renderer.fault
    /\ renderer.log = << >>

\* a frame with a group in use whose mask pass has issued its calls
C37_MaskPassWithGL ==
    /\ phase = "drawn"
    /\ SomeGroupInUse
    /\ renderer.managerGL
    /\ LogPositions("clear") # {}

(***************************************************************************)
(* C38: the slots setupLayoutBounds assigns                                *)
(***************************************************************************)
\* p < q and p <= q for finite rationals
RatLess(p, q) ==
    p[1] * q[2] < q[1] * p[2]

RatLeq(p, q) ==
    p[1] * q[2] <= q[1] * p[2]

InUnitSquare(rect) ==
    /\ RatLeq(Rat(0, 1), rect.x)
    /\ RatLeq(Rat(0, 1), rect.y)
    /\ RatLess(Rat(0, 1), rect.width)
    /\ RatLess(Rat(0, 1), rect.height)
    /\ RatLeq(RatAdd(rect.x, rect.width), Rat(1, 1))
    /\ RatLeq(RatAdd(rect.y, rect.height), Rat(1, 1))

\* the interiors of two rectangles meet
Overlap(a, b) ==
    /\ RatLess(a.x, RatAdd(b.x, b.width))
    /\ RatLess(b.x, RatAdd(a.x, a.width))
    /\ RatLess(a.y, RatAdd(b.y, b.height))
    /\ RatLess(b.y, RatAdd(a.y, a.height))

\* C38: for every n in 1..36, after setupLayoutBounds(n) each of the first n
\* groups of the list has a channel in 0..3 and a rectangle inside the unit
\* square, and no two of them have the same channel and overlapping
\* rectangles.
C38_SlotsDistinctUpToLimit ==
    (call.op = "setupLayoutBounds" /\ call.usingClipCount \in 1..LayoutLimit) =>
        /\ \A i \in 1..call.usingClipCount :
             /\ renderer.forMask[i].layoutChannelNo \in Channels
             /\ InUnitSquare(renderer.forMask[i].layoutBounds)
        /\ \A i, j \in 1..call.usingClipCount :
             (i # j /\ renderer.forMask[i].layoutChannelNo
                          = renderer.forMask[j].layoutChannelNo)
                 => ~Overlap(renderer.forMask[i].layoutBounds,
                             renderer.forMask[j].layoutBounds)

\* n = 36: the last group has the last cell of the 3x3 grid of channel 3
C38_Witness ==
    /\ call.op = "setupLayoutBounds"
    /\ call.usingClipCount = LayoutLimit
    /\ renderer.forMask[LayoutLimit].layoutChannelNo = 3
    /\ renderer.forMask[LayoutLimit].layoutBounds
         = LayoutRect(Rat(2, 3), Rat(2, 3), Rat(1, 3), Rat(1, 3))

(***************************************************************************)
(* C39: deleteInstance in every state of the singleton                     *)
(***************************************************************************)
\* the call of deleteInstance that has ended found the instance without
\* shaders: no draw had generated them
TornDownBeforeAnyDraw ==
    /\ call.op = "deleteInstance"
    /\ call.nth = 1
    /\ renderer.currentFrameNo = 0

\* C39: deleteInstance (doStaticRelease) ends without a fault in every state
\* of the singleton, the state after startUp with no draw included, and
\* leaves no instance.
C39_TeardownNeverFaults ==
    call.op = "deleteInstance" =>
        /\ ~renderer.fault
        /\ ~renderer.s_instance.exists

\* the same for an instance whose shaders a draw has generated
C39_TeardownAfterDrawCompletes ==
    (call.op = "deleteInstance" /\ call.nth = 1
        /\ renderer.currentFrameNo > 0 /\ renderer.gl.failing = {}) =>
        /\ ~renderer.fault
        /\ ~renderer.s_instance.exists

\* startUp followed directly by deleteInstance, which has thrown
C39_TornDownBeforeAnyDrawFaults ==
    /\ TornDownBeforeAnyDraw
    /\ renderer.fault
    /\ renderer.s_instance.exists

\* deleteInstance after a frame, which has deleted the ten programs
C39_TornDownAfterDraw ==
    /\ call.op = "deleteInstance"
    /\ renderer.currentFrameNo > 0
    /\ ~renderer.fault
    /\ Cardinality(LogPositions("deleteProgram")) = Cardinality(ShaderNames)

\* ---------------------------------------------------------------------------
\* CubismModelSettingJson: the per-group motion accessors.  In the behaviours
\* of SpecSetting the variable `model` holds the parsed model3.json (_json):
\* hasMotions tells whether FileReferences.Motions is there, Motions maps the
\* group names it holds to their arrays of motion entries.  A value a JSON
\* entry may lack (Sound, FadeInTime, FadeOutTime) is << >> when absent and
\* << v >> when present; an accessor's result is wrapped the same way, with
\* << >> for null or undefined, and `fault` stands for the TypeError of
\* reading a property of undefined.

\* the model settings the constructor can parse: no Motions, an empty Motions
\* object, or one or both of two groups with one motion entry each
Settings ==
    LET entries == [File : {"idle.motion3.json"},
                    Sound : {<< >>, <<"idle.wav">>},
                    FadeInTime : {<< >>, <<0>>, <<2>>},
                    FadeOutTime : {<< >>, <<0>>, <<3>>}]
        groups == {{}, {"Idle"}, {"TapBody"}, {"Idle", "TapBody"}}
    IN  {[hasMotions |-> FALSE, Motions |-> [g \in {} |-> << >>]]}
        \cup {[hasMotions |-> TRUE, Motions |-> [g \in gs |-> <<e>>]] :
                  gs \in groups, e \in entries}

\* getMotionCount(groupName)
GetMotionCount(json, groupName) ==
    IF ~json.hasMotions THEN [fault |-> FALSE, value |-> <<0>>]
    ELSE IF groupName \notin DOMAIN json.Motions
    THEN [fault |-> FALSE, value |-> <<0>>]
    ELSE [fault |-> FALSE, value |-> <<Len(json.Motions[groupName])>>]

\* getMotionFileName(groupName, index)
GetMotionFileName(json, groupName, index) ==
    IF ~json.hasMotions THEN [fault |-> FALSE, value |-> << >>]
    ELSE IF groupName \notin DOMAIN json.Motions
    THEN [fault |-> FALSE, value |-> << >>]
    ELSE IF index + 1 \notin DOMAIN json.Motions[groupName]
    THEN [fault |-> TRUE, value |-> << >>]
    ELSE [fault |-> FALSE, value |-> <<json.Motions[groupName][index + 1].File>>]

\* getMotionSoundFileName(groupName, index): Motions[groupName] is indexed
\* without a test of the group
GetMotionSoundFileName(json, groupName, index) ==
    IF ~json.hasMotions THEN [fault |-> FALSE, value |-> << >>]
    ELSE IF groupName \notin DOMAIN json.Motions
    THEN [fault |-> TRUE, value |-> << >>]
    ELSE IF index + 1 \notin DOMAIN json.Motions[groupName]
    THEN [fault |-> TRUE, value |-> << >>]
    ELSE [fault |-> FALSE, value |-> json.Motions[groupName][index + 1].Sound]

\* getMotionFadeInTimeValue and getMotionFadeOutTimeValue, which differ in the
\* field they read: Motions[groupName][index] is read without a test of the
\* group, and a time that is absent or 0 is falsy
FadeTimeValue(json, groupName, index, field) ==
    IF ~json.hasMotions THEN [fault |-> FALSE, value |-> <<-1>>]
    ELSE IF groupName \notin DOMAIN json.Motions
    THEN [fault |-> TRUE, value |-> << >>]
    ELSE IF index + 1 \notin DOMAIN json.Motions[groupName]
    THEN [fault |-> TRUE, value |-> << >>]
    ELSE IF json.Motions[groupName][index + 1][field] \in {<< >>, <<0>>}
    THEN [fault |-> FALSE, value |-> <<-1>>]
    ELSE [fault |-> FALSE, value |-> json.Motions[groupName][index + 1][field]]

GetMotionFadeInTimeValue(json, groupName, index) ==
    FadeTimeValue(json, groupName, index, "FadeInTime")

GetMotionFadeOutTimeValue(json, groupName, index) ==
    FadeTimeValue(json, groupName, index, "FadeOutTime")

InitSetting ==
    /\ model \in Settings
    /\ frame = NoFrame
    /\ renderer = NewRenderer
    /\ phase = "setting"
    /\ call = NoCall

\* one call of the accessor `op` on the setting, with a group name the
\* setting may or may not hold and an index inside or outside the array
SettingCall(op) ==
    /\ phase = "setting"
    /\ call = NoCall
    /\ \E groupName \in {"Idle", "TapBody", "Flick"}, index \in 0 .. 1 :
           call' = [op |-> op, groupName |-> groupName, index |-> index,
                    result |->
                        CASE op = "getMotionCount" ->
                                 GetMotionCount(model, groupName)
                          [] op = "getMotionFileName" ->
                                 GetMotionFileName(model, groupName, index)
                          [] op = "getMotionSoundFileName" ->
                                 GetMotionSoundFileName(model, groupName, index)
                          [] op = "getMotionFadeInTimeValue" ->
                                 GetMotionFadeInTimeValue(model, groupName, index)
                          [] op = "getMotionFadeOutTimeValue" ->
                                 GetMotionFadeOutTimeValue(model, groupName, index)]
    /\ UNCHANGED << model, frame, renderer, phase >>

NextSetting ==
    \/ SettingCall("getMotionCount")
    \/ SettingCall("getMotionFileName")
    \/ SettingCall("getMotionSoundFileName")
    \/ SettingCall("getMotionFadeInTimeValue")
    \/ SettingCall("getMotionFadeOutTimeValue")

SpecSetting == InitSetting /\ [][NextSetting]_vars

\* an accessor has been called with a group name the setting does not hold
AbsentGroupCall ==
    /\ phase = "setting"
    /\ call.op # "none"
    /\ call.groupName \notin DOMAIN model.Motions

\* the value an accessor answers for something absent
AbsentValue(op) ==
    CASE op = "getMotionCount" -> <<0>>
      [] op \in {"getMotionFileName", "getMotionSoundFileName"} -> << >>
      [] op \in {"getMotionFadeInTimeValue", "getMotionFadeOutTimeValue"} -> <<-1>>

\* C40: for a group name that FileReferences.Motions does not hold, every
\* per-group accessor returns its absent value (0, null, -1) and does not
\* throw.
C40_AbsentGroupGivesAbsentValue ==
    AbsentGroupCall =>
        /\ ~call.result.fault
        /\ call.result.value = AbsentValue(call.op)

\* the same holds for getMotionCount and getMotionFileName, which test the
\* group, and for all five accessors where Motions itself is absent
C40_AbsentGroupGivesAbsentValueWhenTested ==
    (AbsentGroupCall
        /\ (call.op \in {"getMotionCount", "getMotionFileName"}
                \/ ~model.hasMotions)) =>
        /\ ~call.result.fault
        /\ call.result.value = AbsentValue(call.op)

\* getMotionSoundFileName("Flick", 0) on a setting whose Motions holds Idle
\* only, which has thrown
C40_SoundOfAbsentGroupThrows ==
    /\ AbsentGroupCall
    /\ call.op = "getMotionSoundFileName"
    /\ DOMAIN model.Motions = {"Idle"}
    /\ call.groupName = "Flick"
    /\ call.result.fault

\* getMotionFileName of an absent group, which has answered null
C40_FileOfAbsentGroupIsNull ==
    /\ AbsentGroupCall
    /\ call.op = "getMotionFileName"
    /\ model.hasMotions
    /\ call.result = [fault |-> FALSE, value |-> << >>]
=============================================================================
